---------------------------- MODULE Spec2Model ----------------------------
(***************************************************************************)
(* Model of the RTCM transport layer of gnss-sdr                           *)
(* (src/src/algorithms/PVT/libs/rtcm.h): the "GS" envelope of              *)
(* Rtcm_Message, the broadcast room Rtcm_Listener_Room, the per-client     *)
(* Rtcm_Session and the accept loop of Tcp_Server; and of the acquisition  *)
(* block pcps_opencl_acquisition_cc.                                       *)
(*                                                                         *)
(* The specifications of the module:                                       *)
(*   Spec       the server: accept loop, sessions, room (reactor handlers) *)
(*   SpecMsg    one Rtcm_Message object: body_length(n), encode_header,    *)
(*              decode_header on bounded inputs                            *)
(*   SpecStop   Spec with Tcp_Server::close_server                         *)
(*   SpecBridge the queue, Queue_Reader and Tcp_Internal_Client;           *)
(*              SpecBridgeFair adds the reader thread's progress           *)
(*   SpecCodec  the RTCM 3 frame: build_message, add_CRC, check_CRC,       *)
(*              print_MT1005 / read_MT1005 and the ephemeris readers       *)
(*   SpecLock   Rtcm::lock_time on the six last-lock-time tables           *)
(*   SpecEnc    the field encoders set_DF... and ssr_update_interval       *)
(*   SpecAcq    pcps_opencl_acquisition_cc: set_active, set_state,         *)
(*              general_work and the acquisition_core threads, interleaved *)
(*              by statement; SpecAcqFair adds the progress of the         *)
(*              scheduler, of the workers and of a set_state call          *)
(*   SpecCore   SpecAcq with either core, OpenCL or volk                   *)
(*   SpecRun    SpecCore without set_state calls; SpecRunFair adds the     *)
(*              progress of the scheduler and of the workers               *)
(*   SpecCount  one general_work call: d_sample_counter and consume_each   *)
(*   SpecRead   the sessions reading headers, some of them not decodable   *)
(*   SpecRelay  the bridge, then the server relaying to its sessions       *)
(*   SpecLong   the bridge with a string longer than a message body        *)
(***************************************************************************)
EXTENDS Integers, Sequences, FiniteSets, TLC

VARIABLES
    \* ---- one Rtcm_Message object (SpecMsg) ----
    msg_data,         \* data_[0..5]: the 6 header characters
    msg_body_length,  \* body_length_
    msg_ret,          \* value returned by the last decode_header ("none" before)
    msg_pc,           \* position in the object's life: new/sized/encoded/filled/decoded
    msg_arg,          \* argument of the last body_length(n) call, -1 before any
    \* ---- Tcp_Server ----
    first_client,     \* Tcp_Server::first_client
    start_session,    \* Tcp_Server::start_session
    peer_open,        \* Tcp_Server::socket_ still holds an accepted connection
    n_sessions,       \* number of Rtcm_Session objects created so far
    acceptor_open,    \* Tcp_Server::acceptor_ is open
    \* ---- Rtcm_Listener_Room ----
    participants,     \* participants_
    recent_msgs,      \* recent_msgs_
    \* ---- Rtcm_Session, one entry per session ----
    write_msgs,       \* write_msgs_
    read_msg,         \* read_msg_: its body_length_ (the bytes arrive as handler input)
    rd,               \* the pending async_read: "none", "header" or "body"
    wr,               \* number of async_write operations in flight
    session_open,     \* Rtcm_Session::socket_ is open
    \* ---- observation of the run (history) ----
    delivered,        \* per session: arguments of Rtcm_Session::deliver, in call order
    sock_out,         \* per session: byte strings whose async_write completed, in order
    n_delivered,      \* number of Rtcm_Listener_Room::deliver calls so far
    last_deliver,     \* the last such call: its message, its caller, the members then
    closed,           \* sessions that left the room because of an I/O error
    \* ---- Queue_Reader and Tcp_Internal_Client (the bridge) ----
    queue,            \* *queue_: the encoded-message queue
    qr_pc,            \* position of the drain thread in do_read_queue
    qr_message,          \* the loop's local std::string message
    qr_msg,              \* the loop's local Rtcm_Message msg, Dead outside its lifetime
    posted,           \* handlers posted by Tcp_Internal_Client::write, not yet run
    c_write_msgs,     \* Tcp_Internal_Client::write_msgs_
    c_wr,             \* async_write operations of the client in flight
    c_open,           \* Tcp_Internal_Client::socket_ is open
    \* ---- observation of the bridge (history) ----
    pushed,           \* every string pushed to the queue, in order
    handed,           \* the argument of each c->write(msg) call, as it was at the call
    appended,         \* the message each posted handler appended to write_msgs_
    upstream_out,     \* byte strings whose async_write to the upstream completed
    \* ---- the RTCM codec: one message built, damaged in transit, read ----
    cd_pc,            \* "idle", then "framed" once a message is built, then "read"
    cd_in,            \* what the message was built from
    cd_frame,         \* the framed message, as its binary digits
    cd_flipped,       \* index of the bit damaged in transit, 0 when none
    cd_expect,        \* message type of the read_MT function called, 0 before
    cd_out,           \* its returned value and its output parameters
    \* ---- the Lock-Time Table of Rtcm ----
    last_lock_time,   \* the six ..._last_lock_time[64] arrays, by signal
    lt_clock,         \* the latest observation time handed to lock_time
    lt_calls,         \* history: the lock_time calls so far, with what they returned
    \* ---- one call of a field encoder ----
    fe_pc,            \* "idle", then "field" or "interval": which encoder was called
    fe_in,            \* its arguments
    fe_out,           \* what it produced
    \* ---- pcps_opencl_acquisition_cc ----
    d_max_dwells,     \* constructor argument max_dwells
    d_bit_transition_flag, \* constructor argument bit_transition_flag
    d_state,          \* 0 idle, 1 acquiring, 2 positive, 3 negative acquisition
    d_active,         \* set by set_active
    d_core_working,   \* a worker thread has been started and has not finished
    d_well_count,     \* dwells taken by the workers
    d_in_dwell_count, \* blocks copied into d_in_buffer
    d_test_statistics, \* level of the test statistic: 0, at most, or above d_threshold
    d_mag,            \* level of the maximum peak of the dwell
    d_input_power,    \* 0, or 1 once a dwell's input power was estimated
    d_sample_counter_buffer, \* its size: one sample stamp per block copied
    d_gnss_synchro,   \* the Acq_... results: "zeroed" or "written"
    gw_pc,            \* the scheduler thread: at the "switch", or before the "start" test
    ss_state,         \* the argument of the set_state call in progress, NoCall outside
    workers,          \* the acquisition_core threads alive, each by its position
    crashed,          \* the process died in a read outside d_in_buffer
    d_opencl,         \* 0 when the OpenCL environment was initialised, 1 otherwise
    \* ---- observation of the acquisition (history) ----
    events,           \* the values published on the "events" port, in order
    n_runs,           \* times d_state was set to 1: the acquisition runs started
    n_errors,         \* times "State can only be set to 0 or 1" was logged
    n_ext_calls,      \* calls of set_state and set_active so far
    core_run,         \* the core run in progress: the d_sample_counter_buffer index
                      \* of its stamp, the d_in_buffer indices it correlated and measured
    worker_run,       \* n_runs when the worker thread in progress was started
    \* ---- one general_work call and the samples it counts (SpecCount) ----
    sc_pc,            \* "idle", or "called" after the call
    sc_in,            \* the members the call found and its ninput_items[0]
    sc_advance,       \* what the call added to d_sample_counter
    sc_consumed       \* the argument of its consume_each

msgVars    == <<msg_data, msg_body_length, msg_ret, msg_pc, msg_arg>>
serverVars == <<first_client, start_session, peer_open, n_sessions, acceptor_open>>
roomVars   == <<participants, recent_msgs>>
sessVars   == <<write_msgs, read_msg, rd, wr, session_open>>
histVars   == <<delivered, sock_out, n_delivered, last_deliver, closed>>
bridgeVars == <<queue, qr_pc, qr_message, qr_msg, posted, c_write_msgs, c_wr, c_open,
                pushed, handed, appended, upstream_out>>
codecVars  == <<cd_pc, cd_in, cd_frame, cd_flipped, cd_expect, cd_out>>
lockVars   == <<last_lock_time, lt_clock, lt_calls>>
encVars    == <<fe_pc, fe_in, fe_out>>
\* the parts of the model added after the transport and the frame codec
acqVars    == <<d_max_dwells, d_bit_transition_flag, d_state, d_active,
                d_core_working, d_well_count, d_in_dwell_count, d_test_statistics,
                d_mag, d_input_power, d_sample_counter_buffer, d_gnss_synchro,
                gw_pc, ss_state, workers, crashed, d_opencl, events, n_runs,
                n_errors, n_ext_calls, core_run, worker_run>>
countVars  == <<sc_pc, sc_in, sc_advance, sc_consumed>>
restVars   == <<lockVars, encVars, acqVars, countVars>>
\* what the acquisition block leaves alone
offAcqVars == <<msgVars, serverVars, roomVars, sessVars, histVars, bridgeVars,
                codecVars, lockVars, encVars, countVars>>
vars       == <<msgVars, serverVars, roomVars, sessVars, histVars, bridgeVars,
                codecVars, restVars>>

\* what the handlers of the server leave alone
offServerVars == <<msgVars, bridgeVars, codecVars, restVars>>
\* what the bridge leaves alone
offBridgeVars == <<msgVars, serverVars, roomVars, sessVars, histVars, codecVars,
                   restVars>>
\* what the codec leaves alone
offCodecVars  == <<msgVars, serverVars, roomVars, sessVars, histVars, bridgeVars,
                   restVars>>

-----------------------------------------------------------------------------
(* Bounds of the model *)

MaxSessions == 2      \* sessions accepted in one run
MaxDeliver  == 2      \* calls of Rtcm_Listener_Room::deliver in one run
MaxBodyArg  == 1031   \* largest argument passed to body_length(n)
MaxPush     == 3      \* strings pushed to the encoded-message queue in one run
MaxDataBits == 4      \* longest bit string handed to build_message, bit by bit
FlipLimit   == 200    \* longest framed message (in bits) damaged in every bit
MaxLockCalls == 3     \* calls of lock_time in one run
MaxObsTime  == 1      \* latest observation time, in seconds after the first
MaxExcess   == 3      \* how far above 2^w - 1 the values given to a w-bit field go
MaxDwells   == 2      \* largest max_dwells the block is constructed with
MaxItems    == 2      \* largest ninput_items[0] of a general_work call
MaxAcqCalls == 2      \* calls of set_state and set_active in one run
MaxCountItems == 3    \* largest ninput_items[0] of the general_work call counted

-----------------------------------------------------------------------------
(* Characters and strings: a string is a sequence of one-character strings *)

Digits == <<"0", "1", "2", "3", "4", "5", "6", "7", "8", "9">>

DigitChars == {Digits[i] : i \in 1..10}

DigitVal(c) == (CHOOSE i \in 1..10 : Digits[i] = c) - 1

IsDigit(c) == c \in DigitChars

\* std::isspace on the characters of the model's alphabet
IsSpace(c) == c = " "

Last(s) == s[Len(s)]

-----------------------------------------------------------------------------
(* Rtcm_Message *)

header_length == 6

max_body_length == 1029

\* std::size_t is unsigned: a negative int converts by wrapping.  TLC's integers
\* are 32 bits wide, so the wrap uses 2^30 in place of 2^64; every wrapped value
\* met here (from -999 .. -1) stays far above max_body_length either way.
SizeModulus == 1073741824

ToSizeT(v) == v % SizeModulus

RECURSIVE SkipSpace(_)
SkipSpace(s) ==
    IF s # <<>> /\ IsSpace(Head(s)) THEN SkipSpace(Tail(s)) ELSE s

RECURSIVE ParseDigits(_, _)
ParseDigits(s, acc) ==
    IF s # <<>> /\ IsDigit(Head(s))
    THEN ParseDigits(Tail(s), acc * 10 + DigitVal(Head(s)))
    ELSE acc

\* a conversion that takes no white space before the number
stoi_strict(str) ==
    IF str = <<>> \/ ~IsDigit(Head(str))
    THEN [ok |-> FALSE, val |-> 0]
    ELSE [ok |-> TRUE, val |-> ParseDigits(str, 0)]

\* std::stoi(str), base 10: skips leading white space, takes an optional sign,
\* then the longest run of digits; what follows the digits is ignored.  With no
\* digit at that place it throws std::invalid_argument (ok = FALSE).
stoi(str) ==
    LET s1  == SkipSpace(str)
        neg == s1 # <<>> /\ Head(s1) = "-"
        s2  == IF s1 # <<>> /\ Head(s1) \in {"+", "-"} THEN Tail(s1) ELSE s1
    IN  IF s2 = <<>> \/ ~IsDigit(Head(s2))
        THEN [ok |-> FALSE, val |-> 0]
        ELSE [ok |-> TRUE,
              val |-> IF neg THEN 0 - ParseDigits(s2, 0) ELSE ParseDigits(s2, 0)]

\* void body_length(std::size_t new_length): the new body_length_
set_body_length(new_length) ==
    IF new_length > max_body_length THEN max_body_length ELSE new_length

\* bool decode_header() on header bytes data with body_length_ = len before the
\* call: the returned value and the body_length_ left behind
decode_header_ge(data, len) ==
    IF data[1] # "G" \/ data[2] # "S"
    THEN [ret |-> FALSE, body_length |-> len]
    ELSE LET r == stoi(SubSeq(data, 3, header_length))
             n == ToSizeT(r.val)
         IN  IF ~r.ok THEN [ret |-> FALSE, body_length |-> 0]
             ELSE IF n = 0 THEN [ret |-> FALSE, body_length |-> 0]
             ELSE IF n >= max_body_length THEN [ret |-> FALSE, body_length |-> 0]
             ELSE [ret |-> TRUE, body_length |-> n]

decode_header(data, len) ==
    IF data[1] # "G" \/ data[2] # "S"
    THEN [ret |-> FALSE, body_length |-> len]
    ELSE LET r == stoi(SubSeq(data, 3, header_length))
             n == ToSizeT(r.val)
         IN  IF ~r.ok THEN [ret |-> FALSE, body_length |-> 0]
             ELSE IF n = 0 THEN [ret |-> FALSE, body_length |-> 0]
             ELSE IF n > max_body_length THEN [ret |-> FALSE, body_length |-> 0]
             ELSE [ret |-> TRUE, body_length |-> n]

\* operator<< of a non-negative int: its decimal digits
RECURSIVE Decimal(_)
Decimal(n) ==
    IF n < 10 THEN <<Digits[n + 1]>>
    ELSE Append(Decimal(n \div 10), Digits[(n % 10) + 1])

\* std::setw(w) with the stream's default fill ' ' and right adjustment
SetW(s, w) ==
    IF Len(s) >= w THEN s ELSE [i \in 1..(w - Len(s)) |-> " "] \o s

\* std::string::resize(n, c)
Resize(s, n, c) ==
    IF Len(s) >= n THEN SubSeq(s, 1, n) ELSE s \o [i \in 1..(n - Len(s)) |-> c]

Min(a, b) == IF a < b THEN a ELSE b

Max(a, b) == IF a > b THEN a ELSE b

\* void encode_header() with the field width left out: the header bytes written
encode_header_nosetw(len) ==
    Resize(<<"G", "S">> \o Decimal(Max(Min(len, max_body_length), 0)),
           header_length, " ")

\* void encode_header(): the header bytes written to data_
encode_header(len) ==
    Resize(<<"G", "S">> \o SetW(Decimal(Max(Min(len, max_body_length), 0)), 4),
           header_length, " ")

-----------------------------------------------------------------------------
(* One Rtcm_Message object: SpecMsg *)

\* std::array<char, ...> data_{} : value-initialised, every char is NUL
NulHeader == [i \in 1..header_length |-> "nul"]

\* Header bytes a peer may send: every 4-digit length field behind "GS", and
\* every mix of digits, blank, sign and letter behind a right or wrong prefix
MixChars == {"0", "1", "9", " ", "+", "-", "a"}

Prefixes == {<<"G", "S">>, <<"X", "X">>, <<"G", "X">>}

RxHeaders ==
    {<<"G", "S">> \o f : f \in [1..4 -> DigitChars]}
      \cup {p \o f : p \in Prefixes, f \in [1..4 -> MixChars]}

\* the server is not running while the message object is exercised
ServerIdle ==
    UNCHANGED <<serverVars, roomVars, sessVars, histVars, bridgeVars, codecVars,
                restVars>>

\* Rtcm_Message() : body_length_(0)
MsgNew ==
    /\ msg_data = NulHeader
    /\ msg_body_length = 0
    /\ msg_ret = "none"
    /\ msg_pc = "new"
    /\ msg_arg = -1

\* a fresh message whose header bytes were filled by async_read
MsgFilled ==
    /\ msg_data \in RxHeaders
    /\ msg_body_length = 0
    /\ msg_ret = "none"
    /\ msg_pc = "filled"
    /\ msg_arg = -1

MsgBodyLength(n) ==
    /\ msg_pc = "new"
    /\ msg_body_length' = set_body_length(n)
    /\ msg_arg' = n
    /\ msg_pc' = "sized"
    /\ UNCHANGED <<msg_data, msg_ret>>
    /\ ServerIdle

MsgEncodeHeader ==
    /\ msg_pc = "sized"
    /\ msg_data' = encode_header(msg_body_length)
    /\ msg_pc' = "encoded"
    /\ UNCHANGED <<msg_body_length, msg_ret, msg_arg>>
    /\ ServerIdle

MsgDecodeHeader ==
    /\ msg_pc \in {"filled", "encoded"}
    /\ LET r == decode_header(msg_data, msg_body_length)
       IN  /\ msg_ret' = r.ret
           /\ msg_body_length' = r.body_length
    /\ msg_pc' = IF msg_pc = "filled" THEN "decoded" ELSE "returned"
    /\ UNCHANGED <<msg_data, msg_arg>>
    /\ ServerIdle

-----------------------------------------------------------------------------
(* Messages and bytes met by the server *)

Sessions == 1..MaxSessions

\* the 6-byte headers a client sends: a well-formed one and a malformed one
ClientHeaders ==
    { <<"G", "S", "0", "0", "0", "2">>,
      <<"X", "X", "0", "0", "1", "0">> }

\* the headers of a client that also sends a length field that is no number
\* (std::stoi throws on it)
NoisyHeaders == ClientHeaders \cup { <<"G", "S", "a", "b", "c", "d">> }

\* The body bytes a client sends.  No handler looks at them, so the k-th body
\* that is read completely carries the k-th letter in every byte: all relayed
\* messages differ, and any loss, repetition or swap of messages shows.
Payload(k, len) == [i \in 1..len |-> Digits[k + 1]]

\* A message held by the server, as its body bytes and its body_length_.  The
\* header bytes of data_ are read only inside the header handler (decode_header)
\* and the body bytes of read_msg_ are overwritten by each body read before
\* room_.deliver copies them, so read_msg keeps body_length_ alone.
\* Rtcm_Message(): body_length_(0)
EmptyMessage == [body_length |-> 0]

\* the session writes data() and length(): the envelope header, then the body
BodyOf_enveloped(msg) ==
    <<"G", "S", " ", " ", " ", " ">> \o SubSeq(msg.body, 1, msg.body_length)

\* the bytes async_write sends for boost::asio::buffer(msg.body(), msg.body_length())
BodyOf(msg) == SubSeq(msg.body, 1, msg.body_length)

\* a session as the record of its write side: queue q, writes in flight w,
\* and the log d of the deliver calls it received
SessionOf(s) == [q |-> write_msgs[s], w |-> wr[s], d |-> delivered[s]]

-----------------------------------------------------------------------------
(* Rtcm_Session::deliver and Rtcm_Listener_Room *)

max_recent_msgs == 1

\* Rtcm_Session::deliver with the test of write_in_progress left out
Session_deliver_always(sess, msg) ==
    [q |-> Append(sess.q, msg), w |-> sess.w + 1, d |-> Append(sess.d, msg)]

\* Rtcm_Session::deliver pushing at the front of the queue
Session_deliver_front(sess, msg) ==
    LET write_in_progress == sess.q # <<>>
    IN  [q |-> <<msg>> \o sess.q,
         w |-> IF ~write_in_progress THEN sess.w + 1 ELSE sess.w,
         d |-> Append(sess.d, msg)]

\* Rtcm_Session::deliver(msg): push_back, and do_write() when the queue was empty
Session_deliver(sess, msg) ==
    LET write_in_progress == sess.q # <<>>
    IN  [q |-> Append(sess.q, msg),
         w |-> IF ~write_in_progress THEN sess.w + 1 ELSE sess.w,
         d |-> Append(sess.d, msg)]

\* the loop of Rtcm_Listener_Room::join: participant->deliver(msg) for each
\* recent message, oldest first
RECURSIVE Replay(_, _)
Replay(sess, msgs) ==
    IF msgs = <<>> THEN sess
    ELSE Replay(Session_deliver(sess, Head(msgs)), Tail(msgs))

\* Rtcm_Listener_Room::join without the replay of the recent messages
Room_join_noreplay(s) ==
    [members |-> participants \cup {s}, sess |-> SessionOf(s)]

\* Rtcm_Listener_Room::join(participant): the new member set and the
\* participant's write side after the replay
Room_join(s) ==
    [members |-> participants \cup {s},
     sess    |-> Replay(SessionOf(s), recent_msgs)]

\* Rtcm_Listener_Room::leave emptying the whole set
Room_leave_clear(s) == {}

\* Rtcm_Listener_Room::leave(participant): participants_.erase(participant)
Room_leave(s) == participants \ {s}

\* the trimming loop dropping the newest message instead of the oldest
RECURSIVE TrimRecent_back(_)
TrimRecent_back(msgs) ==
    IF Len(msgs) > max_recent_msgs
    THEN TrimRecent_back(SubSeq(msgs, 1, Len(msgs) - 1))
    ELSE msgs

\* while (recent_msgs_.size() > max_recent_msgs) recent_msgs_.pop_front();
RECURSIVE TrimRecent(_)
TrimRecent(msgs) ==
    IF Len(msgs) > max_recent_msgs THEN TrimRecent(Tail(msgs)) ELSE msgs

\* Rtcm_Listener_Room::deliver stopping after the first participant
Room_deliver_first(msg) ==
    LET one == IF participants = {} THEN {}
               ELSE {CHOOSE s \in participants : \A u \in participants : s <= u}
    IN  [recent |-> TrimRecent(Append(recent_msgs, msg)),
         sess   |-> [s \in Sessions |->
                        IF s \in one THEN Session_deliver(SessionOf(s), msg)
                        ELSE SessionOf(s)]]

\* Rtcm_Listener_Room::deliver starting a participant's write only when no
\* earlier participant still has a write in flight
Room_deliver_serial(msg) ==
    [recent |-> TrimRecent(Append(recent_msgs, msg)),
     sess   |-> [s \in Sessions |->
                    IF s \notin participants THEN SessionOf(s)
                    ELSE IF \E u \in participants : u < s /\ wr[u] > 0
                         THEN [q |-> Append(write_msgs[s], msg), w |-> wr[s],
                               d |-> Append(delivered[s], msg)]
                         ELSE Session_deliver(SessionOf(s), msg)]]

\* Rtcm_Listener_Room::deliver(msg): the replay ring and every session's write
\* side after the call
Room_deliver(msg) ==
    [recent |-> TrimRecent(Append(recent_msgs, msg)),
     sess   |-> [s \in Sessions |->
                    IF s \in participants THEN Session_deliver(SessionOf(s), msg)
                    ELSE SessionOf(s)]]

-----------------------------------------------------------------------------
(* The server: Spec *)

ServerInit ==
    /\ first_client = TRUE
    /\ start_session = TRUE
    /\ peer_open = FALSE
    /\ n_sessions = 0
    /\ acceptor_open = TRUE
    /\ participants = {}
    /\ recent_msgs = <<>>
    /\ write_msgs = [s \in Sessions |-> <<>>]
    /\ read_msg = [s \in Sessions |-> EmptyMessage]
    /\ rd = [s \in Sessions |-> "none"]
    /\ wr = [s \in Sessions |-> 0]
    /\ session_open = [s \in Sessions |-> FALSE]
    /\ delivered = [s \in Sessions |-> <<>>]
    /\ sock_out = [s \in Sessions |-> <<>>]
    /\ n_delivered = 0
    /\ last_deliver = <<>>
    /\ closed = {}

\* the handler of async_accept with ec = success; ec2 is the error of
\* socket_.remote_endpoint.  A session is started by Rtcm_Session::start():
\* room_.join(shared_from_this()); do_read_message_header();
AcceptOk(ec2) ==
    /\ acceptor_open
    /\ ~peer_open
    /\ n_sessions < MaxSessions
    /\ LET start == IF first_client THEN start_session
                    ELSE IF ec2 THEN FALSE ELSE start_session
           s     == n_sessions + 1
           j     == Room_join(s)
       IN  /\ first_client' = FALSE
           /\ IF start
              THEN /\ n_sessions' = s
                   /\ peer_open' = FALSE
                   /\ participants' = j.members
                   /\ write_msgs' = [write_msgs EXCEPT ![s] = j.sess.q]
                   /\ wr' = [wr EXCEPT ![s] = j.sess.w]
                   /\ delivered' = [delivered EXCEPT ![s] = j.sess.d]
                   /\ rd' = [rd EXCEPT ![s] = "header"]
                   /\ session_open' = [session_open EXCEPT ![s] = TRUE]
              ELSE /\ peer_open' = TRUE
                   /\ UNCHANGED <<n_sessions, participants, write_msgs, wr,
                                  delivered, rd, session_open>>
    /\ start_session' = TRUE
    /\ UNCHANGED <<acceptor_open, recent_msgs, read_msg, sock_out, n_delivered,
                   last_deliver, closed, offServerVars>>

\* the handler of async_accept with an error: network failure, already_open
\* when socket_ still holds the connection of a session that was not started,
\* or an aborted accept once acceptor_ is closed
AcceptErr ==
    /\ start_session' = TRUE
    /\ UNCHANGED <<first_client, peer_open, n_sessions, acceptor_open, roomVars,
                   sessVars, delivered, sock_out, n_delivered, last_deliver,
                   closed, offServerVars>>

\* Tcp_Server::close_server(): socket_.close(); acceptor_.close();
\* socket_ is the socket the next connection is accepted into; the sockets of
\* the running sessions were moved out of it into their Rtcm_Session objects
CloseServer ==
    /\ acceptor_open
    /\ peer_open' = FALSE
    /\ acceptor_open' = FALSE
    /\ UNCHANGED <<first_client, start_session, n_sessions, roomVars, sessVars,
                   histVars, offServerVars>>

\* a header that fails decode_header is treated as a read error
HeaderReadOk_leave(s, h) ==
    /\ rd[s] = "header"
    /\ LET r == decode_header(h, read_msg[s].body_length)
       IN  /\ read_msg' = [read_msg EXCEPT ![s].body_length = r.body_length]
           /\ rd' = [rd EXCEPT ![s] = IF r.ret THEN "body" ELSE "none"]
           /\ participants' = IF r.ret THEN participants ELSE Room_leave(s)
           /\ closed' = IF r.ret THEN closed ELSE closed \cup {s}
    /\ UNCHANGED <<serverVars, recent_msgs, write_msgs, wr, delivered, sock_out,
                   n_delivered, last_deliver, session_open, offServerVars>>

\* the handler of do_read_message_header with ec = success and header bytes h
HeaderReadOk(s, h) ==
    /\ rd[s] = "header"
    /\ LET r == decode_header(h, read_msg[s].body_length)
       IN  /\ read_msg' = [read_msg EXCEPT ![s].body_length = r.body_length]
           /\ rd' = [rd EXCEPT ![s] = IF r.ret THEN "body" ELSE "header"]
    /\ UNCHANGED <<serverVars, roomVars, write_msgs, wr, delivered, sock_out,
                   n_delivered, last_deliver, closed, session_open, offServerVars>>

\* the handler of do_read_message_header with an error
HeaderReadErr(s) ==
    /\ rd[s] = "header"
    /\ rd' = [rd EXCEPT ![s] = "none"]
    /\ participants' = Room_leave(s)
    /\ closed' = closed \cup {s}
    /\ UNCHANGED <<serverVars, recent_msgs, write_msgs, read_msg, wr, delivered,
                   sock_out, n_delivered, last_deliver, session_open, offServerVars>>

\* the handler of do_read_message_body with ec = success and body bytes b:
\* room_.deliver(read_msg_); do_read_message_header();
BodyReadOk(s, b) ==
    /\ rd[s] = "body"
    /\ n_delivered < MaxDeliver
    /\ Len(b) = read_msg[s].body_length
    /\ LET m == [body |-> b, body_length |-> read_msg[s].body_length]
           r == Room_deliver(m)
       IN  /\ recent_msgs' = r.recent
           /\ write_msgs' = [t \in Sessions |-> r.sess[t].q]
           /\ wr' = [t \in Sessions |-> r.sess[t].w]
           /\ delivered' = [t \in Sessions |-> r.sess[t].d]
           /\ n_delivered' = n_delivered + 1
           /\ last_deliver' = <<[msg |-> m, from |-> s, members |-> participants]>>
    /\ rd' = [rd EXCEPT ![s] = "header"]
    /\ UNCHANGED <<serverVars, participants, read_msg, sock_out, closed, session_open, offServerVars>>

\* the handler of do_read_message_body with an error
BodyReadErr(s) ==
    /\ rd[s] = "body"
    /\ rd' = [rd EXCEPT ![s] = "none"]
    /\ participants' = Room_leave(s)
    /\ closed' = closed \cup {s}
    /\ UNCHANGED <<serverVars, recent_msgs, write_msgs, read_msg, wr, delivered,
                   sock_out, n_delivered, last_deliver, session_open, offServerVars>>

\* the handler of do_write with ec = success: pop_front, and do_write() again
\* when the queue is not empty
WriteOk(s) ==
    /\ wr[s] > 0
    /\ write_msgs[s] # <<>>
    /\ LET rest == Tail(write_msgs[s])
       IN  /\ sock_out' = [sock_out EXCEPT
                              ![s] = Append(@, BodyOf(Head(write_msgs[s])))]
           /\ write_msgs' = [write_msgs EXCEPT ![s] = rest]
           /\ wr' = [wr EXCEPT ![s] = IF rest # <<>> THEN @ ELSE @ - 1]
    /\ UNCHANGED <<serverVars, roomVars, read_msg, rd, delivered, n_delivered, last_deliver,
                   closed, session_open, offServerVars>>

\* the handler of do_write with an error: the queue is left as it is
WriteErr(s) ==
    /\ wr[s] > 0
    /\ wr' = [wr EXCEPT ![s] = @ - 1]
    /\ participants' = Room_leave(s)
    /\ closed' = closed \cup {s}
    /\ UNCHANGED <<serverVars, recent_msgs, write_msgs, read_msg, rd, delivered,
                   sock_out, n_delivered, last_deliver, session_open, offServerVars>>

-----------------------------------------------------------------------------
(* The bridge: Queue_Reader::do_read_queue on the drain thread and the       *)
(* handlers of Tcp_Internal_Client on the reactor thread                     *)

\* the sentinel that ends do_read_queue
Goodbye == <<"G", "o", "o", "d", "b", "y", "e">>

\* the strings the producer may push as its k-th one: the sentinel, or a
\* message of k bytes that differs from every other message of the run
Pushable(k) == {Payload(k, k), Goodbye}

\* the local msg outside the lifetime of the object
Dead == [data |-> <<>>, body |-> <<>>, body_length |-> -1]

\* Rtcm_Message msg; : body_length_(0), data_{} value-initialised
ZeroMessage == [data |-> NulHeader, body |-> <<>>, body_length |-> 0]

\* bytes found in a stack slot that something else has reused
GarbageMessage ==
    [data |-> [i \in 1..header_length |-> "?"], body |-> <<"?">>, body_length |-> 1]

\* if (message == "Goodbye") without the comparison ever succeeding
IsGoodbye_never(m) == FALSE

\* if (message == "Goodbye")
IsGoodbye(m) == m = Goodbye

\* the bytes async_write sends for boost::asio::buffer(msg.data(), msg.length())
Wire(m) == m.data \o SubSeq(m.body, 1, m.body_length)

\* What the k-th posted handler finds behind its captured reference &msg.
\* While the drain thread still stands between c->write(msg) and the end of
\* that loop iteration the object is alive and unchanged.  Afterwards the
\* reference dangles: the read is undefined, and the build may yield the old
\* bytes, the object the loop has built in the same slot since (at whatever
\* stage it is in), or bytes left by another use of the stack.
HandlerReads(k) ==
    IF k > Len(handed) THEN {}
    ELSE IF qr_pc = "end" /\ k = Len(handed)
    THEN {qr_msg}
    ELSE {handed[k], GarbageMessage} \cup (IF qr_msg # Dead THEN {qr_msg} ELSE {})

BridgeInit ==
    /\ queue = <<>>
    /\ qr_pc = "top"
    /\ qr_message = <<>>
    /\ qr_msg = Dead
    /\ posted = 0
    /\ c_write_msgs = <<>>
    /\ c_wr = 0
    /\ c_open = TRUE
    /\ pushed = <<>>
    /\ handed = <<>>
    /\ appended = <<>>
    /\ upstream_out = <<>>

\* the producer: rtcm_message_queue->push(m)
Push(m) ==
    /\ Len(pushed) < MaxPush
    /\ queue' = Append(queue, m)
    /\ pushed' = Append(pushed, m)
    /\ UNCHANGED <<qr_pc, qr_message, qr_msg, posted, c_write_msgs, c_wr, c_open,
                   handed, appended, upstream_out, offBridgeVars>>

\* top of the loop body: std::string message; Rtcm_Message msg;
QR_Construct ==
    /\ qr_pc = "top"
    /\ qr_message' = <<>>
    /\ qr_msg' = ZeroMessage
    /\ qr_pc' = "wait"
    /\ UNCHANGED <<queue, posted, c_write_msgs, c_wr, c_open, pushed, handed,
                   appended, upstream_out, offBridgeVars>>

\* queue_->wait_and_pop(message); if (message == "Goodbye") break;
QR_Pop ==
    /\ qr_pc = "wait"
    /\ queue # <<>>
    /\ qr_message' = Head(queue)
    /\ queue' = Tail(queue)
    /\ IF IsGoodbye(Head(queue))
       THEN qr_pc' = "done" /\ qr_msg' = Dead
       ELSE qr_pc' = "fill" /\ qr_msg' = qr_msg
    /\ UNCHANGED <<posted, c_write_msgs, c_wr, c_open, pushed, handed,
                   appended, upstream_out, offBridgeVars>>

\* msg.body_length(message.length());
\* std::copy_n(char_msg, msg.body_length(), msg.body());
QR_Fill ==
    /\ qr_pc = "fill"
    /\ LET n == set_body_length(Len(qr_message))
       IN  qr_msg' = [qr_msg EXCEPT !.body_length = n, !.body = SubSeq(qr_message, 1, n)]
    /\ qr_pc' = "encode"
    /\ UNCHANGED <<queue, qr_message, posted, c_write_msgs, c_wr, c_open, pushed,
                   handed, appended, upstream_out, offBridgeVars>>

\* msg.encode_header();
QR_Encode ==
    /\ qr_pc = "encode"
    /\ qr_msg' = [qr_msg EXCEPT !.data = encode_header(qr_msg.body_length)]
    /\ qr_pc' = "write"
    /\ UNCHANGED <<queue, qr_message, posted, c_write_msgs, c_wr, c_open, pushed,
                   handed, appended, upstream_out, offBridgeVars>>

\* c->write(msg): Tcp_Internal_Client::write posts a handler that captured
\* msg by reference, and returns
QR_Write ==
    /\ qr_pc = "write"
    /\ posted' = posted + 1
    /\ handed' = Append(handed, qr_msg)
    /\ qr_pc' = "end"
    /\ UNCHANGED <<queue, qr_message, qr_msg, c_write_msgs, c_wr, c_open, pushed,
                   appended, upstream_out, offBridgeVars>>

\* end of the loop body: message and msg go out of scope
QR_EndIteration ==
    /\ qr_pc = "end"
    /\ qr_msg' = Dead
    /\ qr_message' = <<>>
    /\ qr_pc' = "top"
    /\ UNCHANGED <<queue, posted, c_write_msgs, c_wr, c_open, pushed, handed,
                   appended, upstream_out, offBridgeVars>>

\* the steps of the drain thread
QR_Step ==
    QR_Construct \/ QR_Pop \/ QR_Fill \/ QR_Encode \/ QR_Write \/ QR_EndIteration

\* the handler posted by Tcp_Internal_Client::write, run by the reactor; x is
\* what it reads through the reference &msg
ClientPostedWrite ==
    /\ posted > 0
    /\ \E x \in HandlerReads(Len(appended) + 1) :
          LET write_in_progress == c_write_msgs # <<>>
          IN  /\ c_write_msgs' = Append(c_write_msgs, x)
              /\ c_wr' = IF ~write_in_progress THEN c_wr + 1 ELSE c_wr
              /\ appended' = Append(appended, x)
    /\ posted' = posted - 1
    /\ UNCHANGED <<queue, qr_pc, qr_message, qr_msg, c_open, pushed, handed,
                   upstream_out, offBridgeVars>>

\* the handler of Tcp_Internal_Client::do_write with ec = success
ClientWriteOk ==
    /\ c_wr > 0
    /\ c_write_msgs # <<>>
    /\ LET rest == Tail(c_write_msgs)
       IN  /\ upstream_out' = Append(upstream_out, Wire(Head(c_write_msgs)))
           /\ c_write_msgs' = rest
           /\ c_wr' = IF rest # <<>> THEN c_wr ELSE c_wr - 1
    /\ UNCHANGED <<queue, qr_pc, qr_message, qr_msg, posted, c_open, pushed, handed,
                   appended, offBridgeVars>>

\* the handler of Tcp_Internal_Client::do_write with an error: socket_.close()
ClientWriteErr ==
    /\ c_wr > 0
    /\ c_wr' = c_wr - 1
    /\ c_open' = FALSE
    /\ UNCHANGED <<queue, qr_pc, qr_message, qr_msg, posted, c_write_msgs, pushed,
                   handed, appended, upstream_out, offBridgeVars>>

-----------------------------------------------------------------------------
(* The RTCM codec: framing, CRC-24Q, MT1005 and the message readers.  A     *)
(* message is the string of its binary digits, most significant bit first. *)

RECURSIVE Pow2(_)
Pow2(n) == IF n = 0 THEN 1 ELSE 2 * Pow2(n - 1)

\* std::bitset<w>(v).to_string(): the w low bits of v
UIntToBits(v, w) == [i \in 1..w |-> (v \div Pow2(w - i)) % 2]

\* bin_to_uint: the number written by a string of binary digits
RECURSIVE bin_to_uint(_)
bin_to_uint(bits) ==
    IF bits = <<>> THEN 0
    ELSE 2 * bin_to_uint(SubSeq(bits, 1, Len(bits) - 1)) + bits[Len(bits)]

\* std::string::substr(index, width), index counted from 0
Field(m, index, width) == SubSeq(m, index + 1, index + width)

\* widths of the RTCM 3 frame: preamble | 000000 | length | data | parity
PreambleBits == 8
ReservedBits == 6
LengthBits == 10
ParityBits == 24
HeaderBits == PreambleBits + ReservedBits + LengthBits

\* the CRC-24Q generator polynomial 0x1864CFB
Crc24qPoly == 25578747

RECURSIVE Xor(_, _)
Xor(a, b) ==
    IF a = 0 THEN b
    ELSE IF b = 0 THEN a
    ELSE ((a + b) % 2) + 2 * Xor(a \div 2, b \div 2)

TopBit == Pow2(ParityBits - 1)

\* one shift of the 24-bit register with the bit b coming in at the top
CrcStep(reg, b) ==
    LET top == (reg \div TopBit) # b
        sh  == (reg % TopBit) * 2
    IN  IF top THEN Xor(sh, Crc24qPoly - 2 * TopBit) ELSE sh

\* the entry of the lookup table for the byte value v: v shifted through
RECURSIVE TableEntry(_, _)
TableEntry(reg, n) ==
    IF n = 0 THEN reg ELSE TableEntry(CrcStep(reg, 0), n - 1)

\* the entries of the lookup table for the byte values lo..hi
RECURSIVE TableRange(_, _)
TableRange(lo, hi) ==
    IF lo = hi THEN <<TableEntry(lo * Pow2(ParityBits - 8), 8)>>
    ELSE TableRange(lo, (lo + hi) \div 2) \o TableRange(((lo + hi) \div 2) + 1, hi)

\* the 256-entry lookup table, entry b + 1 for the byte value b
Crc24qTable == TableRange(0, 255)

\* the byte number k (from 1) of a message
ByteAt(bits, k) == bin_to_uint(SubSeq(bits, 8 * k - 7, 8 * k))

\* one byte taken into the register
CrcByte(reg, byte) ==
    Xor((reg % Pow2(ParityBits - 8)) * 256,
        Crc24qTable[Xor(reg \div Pow2(ParityBits - 8), byte) + 1])

\* the register after the bytes lo..hi of a message, from the register reg
RECURSIVE CrcRange(_, _, _, _)
CrcRange(reg, bits, lo, hi) ==
    IF reg < 0 \/ lo > hi THEN reg
    ELSE IF lo = hi THEN CrcByte(reg, ByteAt(bits, lo))
    ELSE CrcRange(CrcRange(reg, bits, lo, (lo + hi) \div 2),
                  bits, ((lo + hi) \div 2) + 1, hi)

\* CRC-24Q of a message of whole bytes: initial value 0, byte by byte through
\* the lookup table, no final XOR
crc24q(bits) == CrcRange(0, bits, 1, Len(bits) \div 8)

\* the preamble 0xD3
preamble == UIntToBits(211, PreambleBits)

reserved_field == UIntToBits(0, ReservedBits)

\* zero bits added to complete a byte
PadToByte(data) == data \o [i \in 1..((8 - (Len(data) % 8)) % 8) |-> 0]

\* add_CRC with the CRC taken over the body alone
add_CRC_body(m) ==
    m \o UIntToBits(crc24q(SubSeq(m, HeaderBits + 1, Len(m))), ParityBits)

\* add_CRC(m): m followed by the CRC-24Q of m
add_CRC(m) == m \o UIntToBits(crc24q(m), ParityBits)

\* build_message with the length field counting bits
build_message_bits(data) ==
    LET body == PadToByte(data)
    IN  add_CRC(preamble \o reserved_field
                  \o UIntToBits(Len(body), LengthBits) \o body)

\* build_message(data): adds 0s to complete a byte, the header and the CRC
build_message(data) ==
    LET body == PadToByte(data)
    IN  add_CRC(preamble \o reserved_field
                  \o UIntToBits(Len(body) \div 8, LengthBits) \o body)

\* check_CRC comparing the low 16 bits of the CRC only
check_CRC_low16(message) ==
    /\ Len(message) >= ParityBits
    /\ SubSeq(message, Len(message) - 15, Len(message))
         = UIntToBits(crc24q(SubSeq(message, 1, Len(message) - ParityBits)), 16)

\* check_CRC(message): the last 24 bits are the CRC-24Q of what precedes them
check_CRC(message) ==
    /\ Len(message) >= ParityBits
    /\ SubSeq(message, Len(message) - ParityBits + 1, Len(message))
         = UIntToBits(crc24q(SubSeq(message, 1, Len(message) - ParityBits)),
                      ParityBits)

\* widths of the data fields of MT1005
DF002Bits == 12
DF003Bits == 12
DF021Bits == 6
DF025Bits == 38
DF364Bits == 2

\* An ECEF coordinate, in units of 0.0001 m, is sign * (hi * 2^19 + lo): the
\* 38-bit range does not fit the integers of the model in one piece.
LimbBits == 19

Coord(neg, hi, lo) == [neg |-> neg, hi |-> hi, lo |-> lo]

Invert(bits) == [i \in 1..Len(bits) |-> 1 - bits[i]]

RECURSIVE AddOne(_)
AddOne(bits) ==
    IF bits = <<>> THEN <<>>
    ELSE IF bits[Len(bits)] = 0
         THEN SubSeq(bits, 1, Len(bits) - 1) \o <<1>>
         ELSE AddOne(SubSeq(bits, 1, Len(bits) - 1)) \o <<0>>

\* two's complement negation at the width of the string
Negate(bits) == AddOne(Invert(bits))

\* set_DF025 writing sign and magnitude
set_DF025_signmag(c) ==
    <<IF c.neg THEN 1 ELSE 0>>
      \o UIntToBits(c.hi, LimbBits - 1) \o UIntToBits(c.lo, LimbBits)

\* set_DF025 (and set_DF026, set_DF027): round(metres * 10000) as a
\* 38-bit two's complement number
set_DF025(c) ==
    LET mag == UIntToBits(c.hi, LimbBits) \o UIntToBits(c.lo, LimbBits)
    IN  IF c.neg THEN Negate(mag) ELSE mag

\* the coordinate read back from its 38 bits
read_DF025(bits) ==
    LET neg == bits[1] = 1
        mag == IF neg THEN Negate(bits) ELSE bits
    IN  Coord(neg, bin_to_uint(SubSeq(mag, 1, LimbBits)),
              bin_to_uint(SubSeq(mag, LimbBits + 1, DF025Bits)))

BoolBit(b) == IF b THEN <<1>> ELSE <<0>>

\* print_MT1005(ref_id, ecef_x, ecef_y, ecef_z, gps, glonass, galileo,
\*              non_physical, single_oscillator, quarter_cycle_indicator)
print_MT1005(a) ==
    build_message(
        UIntToBits(1005, DF002Bits) \o UIntToBits(a.ref_id, DF003Bits)
          \o UIntToBits(0, DF021Bits)
          \o BoolBit(a.gps) \o BoolBit(a.glonass) \o BoolBit(a.galileo)
          \o BoolBit(a.non_physical)
          \o set_DF025(a.ecef_x)
          \o BoolBit(a.single_oscillator) \o <<0>>
          \o set_DF025(a.ecef_y)
          \o UIntToBits(a.quarter_cycle_indicator, DF364Bits)
          \o set_DF025(a.ecef_z))

\* print_MT1019, print_MT1020, print_MT1045: the message number, then the
\* fields of the ephemeris (kept as the bits they occupy)
print_ephemeris(type, fields) ==
    build_message(UIntToBits(type, DF002Bits) \o fields)

\* the output parameters of read_MT1005 as read from a message
decode_MT1005(m) ==
    LET i0 == HeaderBits + DF002Bits
        i1 == i0 + DF003Bits + DF021Bits
        i2 == i1 + 4
        i3 == i2 + DF025Bits + 2
        i4 == i3 + DF025Bits + DF364Bits
    IN  [ref_id  |-> bin_to_uint(Field(m, i0, DF003Bits)),
         gps     |-> Field(m, i1, 1) = <<1>>,
         glonass |-> Field(m, i1 + 1, 1) = <<1>>,
         galileo |-> Field(m, i1 + 2, 1) = <<1>>,
         ecef_x  |-> read_DF025(Field(m, i2, DF025Bits)),
         ecef_y  |-> read_DF025(Field(m, i3, DF025Bits)),
         ecef_z  |-> read_DF025(Field(m, i4, DF025Bits))]

\* the output parameter of read_MT1019, read_MT1020, read_MT1045
decode_ephemeris(m) ==
    [fields |-> SubSeq(m, HeaderBits + DF002Bits + 1, Len(m) - ParityBits)]

\* a reader that decodes before it checks anything
read_MT_unchecked(type, message, prior) ==
    [ret |-> 0,
     val |-> IF type = 1005 /\ Len(message) >= 200
             THEN decode_MT1005(message) ELSE decode_ephemeris(message)]

\* read_MT1005, read_MT1019, read_MT1020, read_MT1045 on a message, the
\* output parameters holding prior before the call: the value returned and
\* the output parameters after it
read_MT(type, message, prior) ==
    IF ~check_CRC(message) THEN [ret |-> 1, val |-> prior]
    ELSE IF bin_to_uint(Field(message, HeaderBits, DF002Bits)) # type
    THEN [ret |-> 1, val |-> prior]
    ELSE [ret |-> 0,
          val |-> IF type = 1005 THEN decode_MT1005(message)
                  ELSE decode_ephemeris(message)]

\* --- the inputs of the model ---

\* bit strings of each length up to n
RECURSIVE BitStrings(_)
BitStrings(n) ==
    IF n = 0 THEN {<<>>}
    ELSE BitStrings(n - 1) \cup [1..n -> {0, 1}]

\* bodies of whole bytes long enough to need both bytes of the length field
LongBodies == {255, 256, 1023}

CodecData ==
    BitStrings(MaxDataBits) \cup {[i \in 1..(8 * n) |-> 0] : n \in LongBodies}

\* 4075580.0 m, 931853.0 m and 4801568.0 m in units of 0.0001 m
SpecX == Coord(FALSE, 77735, 272320)
SpecY == Coord(FALSE, 17773, 359376)
SpecZ == Coord(FALSE, 91582, 336384)

\* the ends of the 38-bit range, and the values next to zero
CoordMax == Coord(FALSE, Pow2(LimbBits - 1) - 1, Pow2(LimbBits) - 1)
CoordMin == Coord(TRUE, Pow2(LimbBits - 1), 0)
CoordZero == Coord(FALSE, 0, 0)

MT1005Arg(r, x, y, z, g, l, e) ==
    [ref_id |-> r, ecef_x |-> x, ecef_y |-> y, ecef_z |-> z,
     gps |-> g, glonass |-> l, galileo |-> e,
     non_physical |-> FALSE, single_oscillator |-> FALSE,
     quarter_cycle_indicator |-> 0]

MT1005Args ==
    {MT1005Arg(4, SpecX, SpecY, SpecZ, g, l, e) : g, l, e \in BOOLEAN}
      \cup {MT1005Arg(0, CoordZero, Coord(FALSE, 0, 1), Coord(TRUE, 0, 1),
                      TRUE, TRUE, FALSE),
            MT1005Arg(4095, CoordMax, CoordMin, Coord(TRUE, 77735, 272320),
                      FALSE, TRUE, TRUE)}

\* the message types that have a reader
ReadTypes == {1005, 1019, 1020, 1045}

EphemerisTypes == ReadTypes \ {1005}

EphemerisFields == {<<1, 0, 1, 1>>, <<0, 1, 1, 0, 0, 0, 0, 1, 1, 1, 1, 1>>}

\* what the output parameters hold before a reader is called
PriorOut == [fields |-> <<>>]

CodecInit ==
    /\ cd_pc = "idle"
    /\ cd_in = [type |-> 0]
    /\ cd_frame = <<>>
    /\ cd_flipped = 0
    /\ cd_expect = 0
    /\ cd_out = [ret |-> -1, val |-> PriorOut]

\* build_message(data)
BuildMessage(data) ==
    /\ cd_pc = "idle"
    /\ cd_in' = [type |-> 0, data |-> data]
    /\ cd_frame' = build_message(data)
    /\ cd_pc' = "framed"
    /\ UNCHANGED <<cd_flipped, cd_expect, cd_out, offCodecVars>>

\* print_MT1005(a)
PrintMT1005(a) ==
    /\ cd_pc = "idle"
    /\ cd_in' = [type |-> 1005, args |-> a]
    /\ cd_frame' = print_MT1005(a)
    /\ cd_pc' = "framed"
    /\ UNCHANGED <<cd_flipped, cd_expect, cd_out, offCodecVars>>

\* print_MT1019, print_MT1020 or print_MT1045
PrintEphemeris(type, fields) ==
    /\ cd_pc = "idle"
    /\ cd_in' = [type |-> type, fields |-> fields]
    /\ cd_frame' = print_ephemeris(type, fields)
    /\ cd_pc' = "framed"
    /\ UNCHANGED <<cd_flipped, cd_expect, cd_out, offCodecVars>>

\* one bit of the message is inverted on its way to the reader
FlipBit(i) ==
    /\ cd_pc = "framed"
    /\ cd_flipped = 0
    /\ Len(cd_frame) <= FlipLimit
    /\ i <= Len(cd_frame)
    /\ cd_frame' = [cd_frame EXCEPT ![i] = 1 - @]
    /\ cd_flipped' = i
    /\ UNCHANGED <<cd_pc, cd_in, cd_expect, cd_out, offCodecVars>>

\* read_MT1005, read_MT1019, read_MT1020 or read_MT1045 on the message
ReadMT(type) ==
    /\ cd_pc = "framed"
    /\ cd_out' = read_MT(type, cd_frame, cd_out.val)
    /\ cd_expect' = type
    /\ cd_pc' = "read"
    /\ UNCHANGED <<cd_in, cd_frame, cd_flipped, offCodecVars>>

-----------------------------------------------------------------------------
(* The Lock-Time Table and Rtcm::lock_time *)

\* boost::posix_time::ptime(): not_a_date_time, the value of a slot nothing was
\* stored in; observation times are 0 and above
NotADateTime == -1

\* the six arrays, by the signal whose lock they time
LockTables == {"gps_L1", "gps_L2", "gal_E1", "gal_E5", "glo_L1", "glo_L2"}

\* boost::posix_time::ptime ..._last_lock_time[64]
TableSize == 64

\* the satellite domain of the table
SatelliteIds == 0..(TableSize - 1)

\* the signals the model calls lock_time for: one of each constellation
CalledTables == {"gps_L1", "gal_E5", "glo_L2"}

\* the satellites the model calls lock_time for
CalledSatellites == {0, TableSize - 1}

\* every satellite shares slot 0
SlotIndex_shared(sat) == 0

\* the slot of a satellite in its signal's array
SlotIndex(sat) == sat

\* the slot keeps its first time
StoredAfter_first(tb, sat, obs_time) ==
    IF last_lock_time[tb][SlotIndex(sat)] = NotADateTime
    THEN obs_time
    ELSE last_lock_time[tb][SlotIndex(sat)]

\* what lock_time leaves in the slot: the time of this observation
StoredAfter(tb, sat, obs_time) == obs_time

\* the duration lock_time returns: the time elapsed since the time stored in
\* the slot, 0 when nothing was stored
Elapsed(tb, sat, obs_time) ==
    IF last_lock_time[tb][SlotIndex(sat)] = NotADateTime
    THEN 0
    ELSE obs_time - last_lock_time[tb][SlotIndex(sat)]

LockInit ==
    /\ last_lock_time = [tb \in LockTables |-> [i \in SatelliteIds |-> NotADateTime]]
    /\ lt_clock = 0
    /\ lt_calls = <<>>

\* lock_time(eph, obs_time, gnss_synchro) for the signal of table tb and the
\* satellite sat
LockTime(tb, sat, obs_time) ==
    /\ Len(lt_calls) < MaxLockCalls
    /\ obs_time >= lt_clock
    /\ last_lock_time' =
          [last_lock_time EXCEPT ![tb][SlotIndex(sat)] = StoredAfter(tb, sat, obs_time)]
    /\ lt_clock' = obs_time
    /\ lt_calls' = Append(lt_calls, [table |-> tb, sat |-> sat, obs_time |-> obs_time,
                                     slot |-> SlotIndex(sat),
                                     ret |-> Elapsed(tb, sat, obs_time)])
    /\ UNCHANGED <<msgVars, serverVars, roomVars, sessVars, histVars, bridgeVars,
                   codecVars, encVars, acqVars, countVars>>

-----------------------------------------------------------------------------
(* Field encoders: an unsigned value into a field, and the SSR update interval *)

\* the value is cut to its w low bits
to_bits_wrap(v, w) == UIntToBits(v % Pow2(w), w)

\* an unsigned value as a field of w bits, saturating at 2^w - 1
to_bits(v, w) ==
    IF v > Pow2(w) - 1 THEN UIntToBits(Pow2(w) - 1, w) ELSE UIntToBits(v, w)

\* the widths of the fields the model encodes into: 1 bit (DF022), 4 bits
\* (IDF004), 6 bits (DF021) and 12 bits (DF002, DF003)
IDF004Bits == 4

FieldWidths == {1, IDF004Bits, DF021Bits, DF002Bits}

\* the values given to a field of w bits: the small ones, and those around the
\* largest the field holds
FieldValues(w) ==
    {v \in 0..(Pow2(w) + MaxExcess) : v <= 2 \/ v >= Pow2(w) - 2}
      \cup {2 * Pow2(w) - 1, 2 * Pow2(w), 2 * Pow2(w) + 1}

\* the standard SSR update intervals in seconds, by code 0..15
SsrIntervals == <<1, 2, 5, 10, 15, 30, 60, 120, 240, 300, 600, 900, 1800, 3600,
                  7200, 10800>>

\* the code of the interval above the value
ssr_update_interval_ceil(validity_seconds) ==
    IF validity_seconds > SsrIntervals[Len(SsrIntervals)]
    THEN Len(SsrIntervals) - 1
    ELSE (CHOOSE c \in 1..Len(SsrIntervals) :
              /\ SsrIntervals[c] >= validity_seconds
              /\ \A d \in 1..(c - 1) : SsrIntervals[d] < validity_seconds) - 1

\* uint8_t ssr_update_interval(uint16_t validity_seconds): the code of the
\* largest standard interval that is not above the value, code 0 below all
ssr_update_interval(validity_seconds) ==
    IF validity_seconds < SsrIntervals[1]
    THEN 0
    ELSE (CHOOSE c \in 1..Len(SsrIntervals) :
              /\ SsrIntervals[c] <= validity_seconds
              /\ \A d \in (c + 1)..Len(SsrIntervals) :
                     SsrIntervals[d] > validity_seconds) - 1

\* the arguments of ssr_update_interval: every uint16_t
ValiditySeconds == 0..(Pow2(16) - 1)

EncInit ==
    /\ fe_pc = "idle"
    /\ fe_in = [value |-> 0, width |-> 0]
    /\ fe_out = <<>>

\* a set_DF...(value) call on a field of w bits
SetField ==
    /\ fe_pc = "idle"
    /\ fe_pc' = "field"
    /\ \E w \in FieldWidths : \E v \in FieldValues(w) :
          /\ fe_in' = [value |-> v, width |-> w]
          /\ fe_out' = to_bits(v, w)
    /\ UNCHANGED <<msgVars, serverVars, roomVars, sessVars, histVars, bridgeVars,
                   codecVars, lockVars, acqVars, countVars>>

\* set_IDF004(ssr_update_interval(validity_seconds))
SetIDF004 ==
    /\ fe_pc = "idle"
    /\ fe_pc' = "interval"
    /\ \E validity_seconds \in ValiditySeconds :
          /\ fe_in' = [value |-> validity_seconds, width |-> IDF004Bits]
          /\ fe_out' = to_bits(ssr_update_interval(validity_seconds), IDF004Bits)
    /\ UNCHANGED <<msgVars, serverVars, roomVars, sessVars, histVars, bridgeVars,
                   codecVars, lockVars, acqVars, countVars>>

-----------------------------------------------------------------------------
(* pcps_opencl_acquisition_cc: the scheduler thread in general_work, the      *)
(* acquisition_core worker threads, and the thread that calls set_state and   *)
(* set_active. No lock protects the members they share, so the statements of  *)
(* the three interleave.                                                      *)

\* ss_state outside a set_state call
NoCall == -1

\* the arguments set_state is called with: the two documented ones, the two
\* verdict states and a value that is no state
StateArgs == {0, 1, 2, 3, 4}

\* d_threshold, as a level of the test statistic
d_threshold == 1

\* the level of a dwell's peak over the input power: 0 when the dwell shows no
\* peak at all, 1 when at most the threshold, 2 when above it
Ratios == 0..2

\* an unsigned integer of up to 64 bits in two parts, hi * 2^16 + lo with lo
\* below 2^16
Word(hi, lo) == [hi |-> hi, lo |-> lo]

\* the 64-bit product of x and a small k, and the 64-bit sum of x and y; a
\* single call stays far below 2^64, so nothing is lost
Times(x, k) ==
    LET l == x.lo * k
    IN  Word(x.hi * k + l \div Pow2(16), l % Pow2(16))

Plus(x, y) ==
    LET l == x.lo + y.lo
    IN  Word(x.hi + y.hi + l \div Pow2(16), l % Pow2(16))

\* d_fft_size = d_sampled_ms * d_samples_per_ms, as 32-bit values: 4000 (1 ms
\* at 4 Msps), 2^31 and 2^32 - 1
FftSizes == {Word(0, 4000), Word(32768, 0), Word(65535, 65535)}

\* d_fft_size * k as general_work computes it before the cast to uint64_t: the
\* product of two 32-bit operands, of which the low 32 bits are left
Product32(x, k) ==
    LET p == Times(x, k)
    IN  Word(p.hi % Pow2(16), p.lo)

\* what one general_work call adds to d_sample_counter, for the members c it
\* finds and c.ninput_items input items
SampleCounterAdvance(c) ==
    IF c.d_state \in {0, 2, 3}
    THEN Times(c.d_fft_size, c.ninput_items)
    ELSE IF c.d_state = 1
    THEN IF c.d_in_dwell_count < c.d_max_dwells
         THEN LET num_dwells == Min(c.d_max_dwells - c.d_in_dwell_count,
                                     c.ninput_items)
              IN  Plus(Times(c.d_fft_size, num_dwells),
                       IF c.ninput_items > num_dwells
                       THEN Product32(c.d_fft_size, c.ninput_items - num_dwells)
                       ELSE Word(0, 0))
         ELSE Times(c.d_fft_size, c.ninput_items)
    ELSE Word(0, 0)

\* an index of core_run not used yet
NoIndex == -1

\* core_run before the first core run
NoCoreRun == [stamp |-> NoIndex, corr |-> NoIndex, power |-> NoIndex]

AcqInit ==
    /\ d_max_dwells \in 1..MaxDwells
    /\ d_bit_transition_flag \in BOOLEAN
    /\ d_state = 0
    /\ d_active = FALSE
    /\ d_core_working = FALSE
    /\ d_well_count = 0
    /\ d_in_dwell_count = 0
    /\ d_test_statistics = 0
    /\ d_mag = 0
    /\ d_input_power = 0
    /\ d_sample_counter_buffer = 0
    /\ d_gnss_synchro = "zeroed"
    /\ gw_pc = "switch"
    /\ ss_state = NoCall
    /\ workers = <<>>
    /\ crashed = FALSE
    /\ d_opencl \in {0, 1}
    /\ events = <<>>
    /\ n_runs = 0
    /\ n_errors = 0
    /\ n_ext_calls = 0
    /\ core_run = NoCoreRun
    /\ worker_run = 0
    /\ sc_pc = "idle"
    /\ sc_in = [d_state |-> 0, d_in_dwell_count |-> 0, d_max_dwells |-> 1,
                d_fft_size |-> Word(0, 0), ninput_items |-> 0]
    /\ sc_advance = Word(0, 0)
    /\ sc_consumed = 0

\* the block as the unit tests configure it (max_dwells 1, bit_transition_flag
\* false), on a machine where init_opencl_environment finds no device: the one
\* block present while another part of the program is studied
AcqTestInit ==
    /\ AcqInit
    /\ d_max_dwells = 1
    /\ ~d_bit_transition_flag
    /\ d_opencl = 1

\* "restart acquisition variables": the ten assignments shared by set_state
\* and by case 0 of general_work
Restart ==
    /\ d_gnss_synchro' = "zeroed"
    /\ d_well_count' = 0
    /\ d_mag' = 0
    /\ d_input_power' = 0
    /\ d_test_statistics' = 0
    /\ d_in_dwell_count' = 0
    /\ d_sample_counter_buffer' = 0

\* set_active(active)
SetActive(active) ==
    /\ ~crashed
    /\ n_ext_calls < MaxAcqCalls
    /\ d_active' = active
    /\ n_ext_calls' = n_ext_calls + 1
    /\ UNCHANGED <<d_max_dwells, d_bit_transition_flag, d_state, d_core_working,
                   d_well_count, d_in_dwell_count, d_test_statistics, d_mag,
                   d_input_power, d_sample_counter_buffer, d_gnss_synchro, gw_pc,
                   ss_state, workers, crashed, events, n_runs, n_errors,
                   d_opencl, core_run, worker_run,
                   offAcqVars>>

\* set_state, first statement: d_state = state;
SetStateAssign(state) == d_state' = state

SetStateCall(state) ==
    /\ ~crashed
    /\ ss_state = NoCall
    /\ n_ext_calls < MaxAcqCalls
    /\ SetStateAssign(state)
    /\ ss_state' = state
    /\ n_ext_calls' = n_ext_calls + 1
    /\ n_runs' = IF d_state' = 1 THEN n_runs + 1 ELSE n_runs
    /\ UNCHANGED <<d_max_dwells, d_bit_transition_flag, d_active, d_core_working,
                   d_well_count, d_in_dwell_count, d_test_statistics, d_mag,
                   d_input_power, d_sample_counter_buffer, d_gnss_synchro, gw_pc,
                   workers, crashed, events, n_errors,
                   d_opencl, core_run, worker_run,
                   offAcqVars>>

\* what "if (d_state == 1) ... else if (d_state == 0)" may test: the member as
\* it is now, or the value just assigned when the build keeps it in a register
BranchValues == {d_state, ss_state}

\* set_state, the rest: the branch on d_state
SetStateBranch ==
    /\ ~crashed
    /\ ss_state # NoCall
    /\ \E v \in BranchValues :
          IF v = 1
          THEN /\ Restart
               /\ UNCHANGED n_errors
          ELSE /\ n_errors' = IF v = 0 THEN n_errors ELSE n_errors + 1
               /\ UNCHANGED <<d_well_count, d_in_dwell_count, d_test_statistics,
                              d_mag, d_input_power, d_sample_counter_buffer,
                              d_gnss_synchro>>
    /\ ss_state' = NoCall
    /\ UNCHANGED <<d_max_dwells, d_bit_transition_flag, d_state, d_active,
                   d_core_working, gw_pc, workers, crashed, events, n_runs,
                   n_ext_calls, d_opencl, core_run, worker_run,
                   offAcqVars>>

\* general_work, case 0
GeneralWork0 ==
    /\ ~crashed
    /\ gw_pc = "switch"
    /\ d_state = 0
    /\ IF d_active
       THEN /\ Restart
            /\ d_state' = 1
            /\ n_runs' = n_runs + 1
       ELSE UNCHANGED <<d_well_count, d_in_dwell_count, d_test_statistics, d_mag,
                        d_input_power, d_sample_counter_buffer, d_gnss_synchro,
                        d_state, n_runs>>
    /\ UNCHANGED <<d_max_dwells, d_bit_transition_flag, d_active, d_core_working,
                   gw_pc, ss_state, workers, crashed, events, n_errors,
                   n_ext_calls, d_opencl, core_run, worker_run,
                   offAcqVars>>

\* general_work, case 1, up to the test that starts a worker: the input blocks
\* are copied into d_in_buffer, at most d_max_dwells of them
GeneralWork1(ninput_items) ==
    /\ ~crashed
    /\ gw_pc = "switch"
    /\ d_state = 1
    /\ LET num_dwells == IF d_in_dwell_count < d_max_dwells
                         THEN Min(d_max_dwells - d_in_dwell_count, ninput_items)
                         ELSE 0
       IN  /\ d_in_dwell_count' = d_in_dwell_count + num_dwells
           /\ d_sample_counter_buffer' = d_sample_counter_buffer + num_dwells
    /\ gw_pc' = "start"
    /\ UNCHANGED <<d_max_dwells, d_bit_transition_flag, d_state, d_active,
                   d_core_working, d_well_count, d_test_statistics, d_mag,
                   d_input_power, d_gnss_synchro, ss_state, workers, crashed,
                   events, n_runs, n_errors, n_ext_calls,
                   d_opencl, core_run, worker_run,
                   offAcqVars>>

\* the worker is started whatever d_core_working says
StartCondition_any ==
    d_well_count < d_in_dwell_count /\ d_state = 1

\* (d_well_count < d_in_dwell_count) && !d_core_working && d_state == 1
StartCondition ==
    d_well_count < d_in_dwell_count /\ ~d_core_working /\ d_state = 1

\* general_work, case 1, the end: a worker thread is started, or not
GeneralWorkStart ==
    /\ ~crashed
    /\ gw_pc = "start"
    /\ IF StartCondition
       THEN /\ d_core_working' = TRUE
            /\ workers' = Append(workers, "entry")
            /\ worker_run' = n_runs
       ELSE UNCHANGED <<d_core_working, workers, worker_run>>
    /\ gw_pc' = "switch"
    /\ UNCHANGED <<d_max_dwells, d_bit_transition_flag, d_state, d_active,
                   d_well_count, d_in_dwell_count, d_test_statistics, d_mag,
                   d_input_power, d_sample_counter_buffer, d_gnss_synchro,
                   ss_state, crashed, events, n_runs, n_errors, n_ext_calls,
                   d_opencl, core_run,
                   offAcqVars>>

\* general_work, cases 2 and 3: the verdict is published
GeneralWorkPublish(acquisition_message) ==
    /\ d_active' = FALSE
    /\ d_state' = 0
    /\ events' = Append(events, acquisition_message)
    /\ UNCHANGED <<d_max_dwells, d_bit_transition_flag, d_core_working,
                   d_well_count, d_in_dwell_count, d_test_statistics, d_mag,
                   d_input_power, d_sample_counter_buffer, d_gnss_synchro, gw_pc,
                   ss_state, workers, crashed, n_runs, n_errors, n_ext_calls,
                   d_opencl, core_run, worker_run,
                   offAcqVars>>

GeneralWork2 ==
    /\ ~crashed
    /\ gw_pc = "switch"
    /\ d_state = 2
    /\ GeneralWorkPublish(1)

GeneralWork3 ==
    /\ ~crashed
    /\ gw_pc = "switch"
    /\ d_state = 3
    /\ GeneralWorkPublish(2)

\* the other workers once the worker at position k has ended
Without(k) == SubSeq(workers, 1, k - 1) \o SubSeq(workers, k + 1, Len(workers))

\* acquisition_core_volk or acquisition_core_opencl, up to d_well_count++: the
\* sample stamp is d_sample_counter_buffer[d_well_count], and the OpenCL core
\* writes d_in_buffer[d_well_count] to the device, both before the increment
WorkerEntry(k) ==
    /\ ~crashed
    /\ k \in 1..Len(workers)
    /\ workers[k] = "entry"
    /\ d_input_power' = 0
    /\ d_mag' = 0
    /\ d_well_count' = d_well_count + 1
    /\ core_run' = [stamp |-> d_well_count,
                    corr  |-> IF d_opencl = 0 THEN d_well_count ELSE NoIndex,
                    power |-> NoIndex]
    /\ workers' = [workers EXCEPT ![k] = "search"]
    /\ UNCHANGED <<d_max_dwells, d_bit_transition_flag, d_state, d_active,
                   d_core_working, d_in_dwell_count, d_test_statistics,
                   d_sample_counter_buffer, d_gnss_synchro, gw_pc, ss_state,
                   crashed, events, n_runs, n_errors, n_ext_calls,
                   d_opencl, worker_run,
                   offAcqVars>>

\* d_in_buffer[d_well_count], read after the increment, is an element of the
\* vector of d_max_dwells blocks
InBufferHit == d_well_count < d_max_dwells

\* the d_in_buffer indices of a core run once it has read
\* d_in_buffer[d_well_count] after the increment: for the power estimation, and in
\* acquisition_core_volk for the Doppler wipe-off of the correlation too
CoreReads ==
    [core_run EXCEPT !.power = d_well_count,
                     !.corr  = IF d_opencl = 0 THEN core_run.corr ELSE d_well_count]

\* acquisition_core, the power estimation and the Doppler search on
\* d_in_buffer[d_well_count], with the level magt the search finds
WorkerSearch(k, magt) ==
    /\ ~crashed
    /\ k \in 1..Len(workers)
    /\ workers[k] = "search"
    /\ d_input_power' = 1
    /\ core_run' = CoreReads
    /\ IF d_mag < magt
       THEN /\ d_mag' = magt
            /\ IF d_test_statistics < magt \/ ~d_bit_transition_flag
               THEN /\ d_gnss_synchro' = "written"
                    /\ d_test_statistics' = magt
               ELSE UNCHANGED <<d_gnss_synchro, d_test_statistics>>
       ELSE UNCHANGED <<d_mag, d_gnss_synchro, d_test_statistics>>
    /\ workers' = [workers EXCEPT ![k] = "verdict"]
    /\ UNCHANGED <<d_max_dwells, d_bit_transition_flag, d_state, d_active,
                   d_core_working, d_well_count, d_in_dwell_count,
                   d_sample_counter_buffer, gw_pc, ss_state, crashed, events,
                   n_runs, n_errors, n_ext_calls, d_opencl, worker_run,
                   offAcqVars>>

\* the read of d_in_buffer[d_well_count] past the end of the vector takes the
\* process down instead of giving some block
WorkerCrash(k) ==
    /\ ~crashed
    /\ k \in 1..Len(workers)
    /\ workers[k] = "search"
    /\ ~InBufferHit
    /\ crashed' = TRUE
    /\ core_run' = CoreReads
    /\ UNCHANGED <<d_max_dwells, d_bit_transition_flag, d_state, d_active,
                   d_core_working, d_well_count, d_in_dwell_count,
                   d_test_statistics, d_mag, d_input_power,
                   d_sample_counter_buffer, d_gnss_synchro, gw_pc, ss_state,
                   workers, events, n_runs, n_errors, n_ext_calls,
                   d_opencl, worker_run,
                   offAcqVars>>

\* the state the worker leaves: 2 or 3 when it declares, d_state otherwise
Verdict ==
    IF ~d_bit_transition_flag
    THEN IF d_test_statistics > d_threshold THEN 2
         ELSE IF d_well_count = d_max_dwells THEN 3
         ELSE d_state
    ELSE IF d_well_count = d_max_dwells
         THEN IF d_test_statistics > d_threshold THEN 2 ELSE 3
         ELSE d_state

\* acquisition_core, the end: the verdict, then d_core_working = false
WorkerVerdict(k) ==
    /\ ~crashed
    /\ k \in 1..Len(workers)
    /\ workers[k] = "verdict"
    /\ d_state' = Verdict
    /\ d_core_working' = FALSE
    /\ workers' = Without(k)
    /\ core_run' = NoCoreRun
    /\ worker_run' = 0
    /\ UNCHANGED <<d_max_dwells, d_bit_transition_flag, d_active, d_well_count,
                   d_in_dwell_count, d_test_statistics, d_mag, d_input_power,
                   d_sample_counter_buffer, d_gnss_synchro, gw_pc, ss_state,
                   crashed, events, n_runs, n_errors, n_ext_calls,
                   d_opencl,
                   offAcqVars>>

\* general_work, as to d_sample_counter and consume_each: one call, in any
\* state of the block and with any number of input items
GeneralWorkCount ==
    /\ sc_pc = "idle"
    /\ \E st \in StateArgs, md \in 1..MaxDwells, fft \in FftSizes,
          n \in 1..MaxCountItems :
          \E idc \in 0..md :
              LET c == [d_state |-> st, d_in_dwell_count |-> idc,
                        d_max_dwells |-> md, d_fft_size |-> fft,
                        ninput_items |-> n]
              IN  /\ sc_in' = c
                  /\ sc_advance' = SampleCounterAdvance(c)
                  /\ sc_consumed' = c.ninput_items
    /\ sc_pc' = "called"
    /\ UNCHANGED <<msgVars, serverVars, roomVars, sessVars, histVars, bridgeVars,
                   codecVars, lockVars, encVars, acqVars>>

-----------------------------------------------------------------------------
(* The specifications *)

Init ==
    ServerInit /\ MsgNew /\ BridgeInit /\ CodecInit /\ LockInit /\ EncInit /\ AcqTestInit

Next ==
    \/ \E ec2 \in BOOLEAN : AcceptOk(ec2)
    \/ AcceptErr
    \/ \E s \in Sessions, h \in ClientHeaders : HeaderReadOk(s, h)
    \/ \E s \in Sessions : HeaderReadErr(s)
    \/ \E s \in Sessions :
          BodyReadOk(s, Payload(n_delivered + 1, read_msg[s].body_length))
    \/ \E s \in Sessions : BodyReadErr(s)
    \/ \E s \in Sessions : WriteOk(s)
    \/ \E s \in Sessions : WriteErr(s)

Spec == Init /\ [][Next]_vars

InitMsg ==
    /\ ServerInit
    /\ BridgeInit
    /\ CodecInit
    /\ LockInit
    /\ EncInit
    /\ AcqTestInit
    /\ MsgNew \/ MsgFilled

NextMsg ==
    \/ \E n \in 0..MaxBodyArg : MsgBodyLength(n)
    \/ MsgEncodeHeader
    \/ MsgDecodeHeader

SpecMsg == InitMsg /\ [][NextMsg]_vars

\* the server with its shutdown
NextStop ==
    \/ Next
    \/ CloseServer

SpecStop == Init /\ [][NextStop]_vars

\* the server with clients whose connections never fail: every read and write
\* completes without error, and what a client sends may be no envelope
NextRead ==
    \/ AcceptOk(FALSE)
    \/ \E s \in Sessions, h \in NoisyHeaders : HeaderReadOk(s, h)
    \/ \E s \in Sessions :
          BodyReadOk(s, Payload(n_delivered + 1, read_msg[s].body_length))
    \/ \E s \in Sessions : WriteOk(s)

SpecRead == Init /\ [][NextRead]_vars

NextBridge ==
    \/ \E m \in Pushable(Len(pushed) + 1) : Push(m)
    \/ QR_Construct
    \/ QR_Pop
    \/ QR_Fill
    \/ QR_Encode
    \/ QR_Write
    \/ QR_EndIteration
    \/ ClientPostedWrite
    \/ ClientWriteOk
    \/ ClientWriteErr

SpecBridge == Init /\ [][NextBridge]_vars

\* the drain thread keeps being scheduled
SpecBridgeFair == SpecBridge /\ WF_vars(QR_Step)

\* a string of the queue that is longer than the body of an Rtcm_Message
LongMessage == [i \in 1..MaxBodyArg |-> "L"]

\* the bridge fed with strings that do not fit
NextLong ==
    \/ \E m \in {LongMessage, Goodbye} : Push(m)
    \/ QR_Construct
    \/ QR_Pop
    \/ QR_Fill
    \/ QR_Encode
    \/ QR_Write
    \/ QR_EndIteration
    \/ ClientPostedWrite
    \/ ClientWriteOk
    \/ ClientWriteErr

SpecLong == Init /\ [][NextLong]_vars

\* the producer has pushed one message and the sentinel, do_read_queue has
\* returned and the reactor has nothing left to run for the internal client
BridgeDone ==
    /\ pushed = <<Payload(1, 1), Goodbye>>
    /\ qr_pc = "done"
    /\ posted = 0
    /\ c_wr = 0

\* the bridge and the server in one run: the bridge drains the queue, and once
\* it has ended after one message the server serves its clients.  The two
\* share no variable, so this order stands for every interleaving of them.
NextRelay ==
    \/ NextBridge
    \/ BridgeDone /\ NextRead

SpecRelay == Init /\ [][NextRelay]_vars

NextCodec ==
    \/ \E data \in CodecData : BuildMessage(data)
    \/ \E a \in MT1005Args : PrintMT1005(a)
    \/ \E type \in EphemerisTypes, fields \in EphemerisFields :
          PrintEphemeris(type, fields)
    \/ \E i \in 1..FlipLimit : FlipBit(i)
    \/ \E type \in ReadTypes : ReadMT(type)

SpecCodec == Init /\ [][NextCodec]_vars

NextLock ==
    \E tb \in CalledTables, sat \in CalledSatellites, t \in 0..MaxObsTime :
        LockTime(tb, sat, t)

SpecLock == Init /\ [][NextLock]_vars

NextEnc ==
    \/ SetField
    \/ SetIDF004

SpecEnc == Init /\ [][NextEnc]_vars

NextCount == GeneralWorkCount

SpecCount == Init /\ [][NextCount]_vars

\* the scheduler thread
GeneralWork ==
    \/ GeneralWork0
    \/ \E ninput_items \in 1..MaxItems : GeneralWork1(ninput_items)
    \/ GeneralWorkStart
    \/ GeneralWork2
    \/ GeneralWork3

\* the worker threads
Worker ==
    \/ \E k \in 1..Len(workers) : WorkerEntry(k)
    \/ \E k \in 1..Len(workers), magt \in Ratios : WorkerSearch(k, magt)
    \/ \E k \in 1..Len(workers) : WorkerCrash(k)
    \/ \E k \in 1..Len(workers) : WorkerVerdict(k)

NextAcq ==
    \/ \E active \in BOOLEAN : SetActive(active)
    \/ \E state \in StateArgs : SetStateCall(state)
    \/ SetStateBranch
    \/ GeneralWork
    \/ Worker

\* the block where init_opencl_environment found no device: its workers run
\* acquisition_core_volk
InitAcq ==
    /\ ServerInit /\ MsgNew /\ BridgeInit /\ CodecInit /\ LockInit /\ EncInit
    /\ AcqInit
    /\ d_opencl = 1

SpecAcq == InitAcq /\ [][NextAcq]_vars

\* the block with either core, acquisition_core_opencl or acquisition_core_volk
InitCore ==
    ServerInit /\ MsgNew /\ BridgeInit /\ CodecInit /\ LockInit /\ EncInit /\ AcqInit

SpecCore == InitCore /\ [][NextAcq]_vars

\* the block when nobody calls set_state: set_active, the scheduler thread and
\* the worker threads
NextRun ==
    \/ \E active \in BOOLEAN : SetActive(active)
    \/ GeneralWork
    \/ Worker

SpecRun == InitCore /\ [][NextRun]_vars

\* input blocks keep arriving, so the scheduler keeps calling general_work, and
\* the worker threads are scheduled
SpecRunFair ==
    /\ SpecRun
    /\ WF_vars(GeneralWork)
    /\ WF_vars(Worker)

\* the scheduler keeps calling general_work, the worker threads keep running
\* and a set_state call returns
SpecAcqFair ==
    /\ SpecAcq
    /\ WF_vars(GeneralWork)
    /\ WF_vars(Worker)
    /\ WF_vars(SetStateBranch)

-----------------------------------------------------------------------------
(* Properties of the sessions and the room, checked under Spec *)

\* the byte strings a session sends for a sequence of messages
BodiesOf(msgs) == [i \in 1..Len(msgs) |-> BodyOf(msgs[i])]

\* a step in which Rtcm_Listener_Room::deliver was called
RoomDeliverStep == n_delivered' = n_delivered + 1

\* a step in which session s joined the room
JoinStep(s) == s \notin participants /\ s \in participants'

\* a step in which a read or a write of session s completed with an error
ErrorStep(s) ==
    \/ rd[s] # "none" /\ rd'[s] = "none"
    \/ wr'[s] = wr[s] - 1 /\ write_msgs'[s] = write_msgs[s]

\* C1: at most one asynchronous write is in flight for a session at any time,
\* and it is a write of a message still held in the session's write queue.
C1_OneWriteInFlight ==
    \A s \in Sessions : wr[s] <= 1 /\ (wr[s] = 1 => write_msgs[s] # <<>>)

\* C1 witness: a message waits in the queue behind the one being written.
C1_Witness ==
    \E s \in Sessions : wr[s] = 1 /\ Len(write_msgs[s]) >= 2

\* C2: what a session has written to its socket, followed by what still waits
\* in its queue, is exactly the sequence of messages delivered to it, in the
\* order of delivery: nothing skipped, duplicated or reordered.
C2_WriteOrderIsFifo ==
    \A s \in Sessions :
        sock_out[s] \o BodiesOf(write_msgs[s]) = BodiesOf(delivered[s])

\* C2 witness: a session has written two different messages.
C2_Witness ==
    \E s \in Sessions :
        /\ Len(sock_out[s]) >= 2
        /\ sock_out[s][1] # sock_out[s][2]

\* C3: a call of Rtcm_Listener_Room::deliver(m) appends m exactly once to the
\* write queue of every member of the room (the session m was read from
\* included) and leaves the queue of every other session as it was.
C3_DeliverReachesMembersOnly ==
    [][RoomDeliverStep =>
          LET m == last_deliver'[1].msg
          IN  \A s \in Sessions :
                 IF s \in participants
                 THEN /\ write_msgs'[s] = Append(write_msgs[s], m)
                      /\ delivered'[s] = Append(delivered[s], m)
                 ELSE /\ write_msgs'[s] = write_msgs[s]
                      /\ delivered'[s] = delivered[s]]_vars

\* C3 witness: a message read from a member was delivered to two members, the
\* one it was read from included.
C3_Witness ==
    /\ last_deliver # <<>>
    /\ LET l == last_deliver[1]
       IN  /\ Cardinality(l.members) >= 2
           /\ l.from \in l.members
           /\ \A s \in l.members :
                 delivered[s] # <<>> /\ Last(delivered[s]) = l.msg

\* C4: a session that joins receives exactly the most recently delivered
\* message when one was delivered before, and nothing otherwise; a deliver on
\* a room without members stores the message and touches no session.
C4_JoinReplaysLast ==
    [][/\ \A s \in Sessions :
            JoinStep(s) =>
               LET replay == IF n_delivered = 0 THEN <<>>
                             ELSE <<last_deliver[1].msg>>
               IN  /\ delivered'[s] = replay
                   /\ write_msgs'[s] = replay
                   /\ wr'[s] = Len(replay)
       /\ (RoomDeliverStep /\ participants = {}) =>
               /\ recent_msgs' = <<last_deliver'[1].msg>>
               /\ write_msgs' = write_msgs]_vars

\* C4 witness: a message was delivered to a room without members and the
\* session that joined afterwards received exactly that message.
C4_Witness ==
    /\ last_deliver # <<>>
    /\ last_deliver[1].members = {}
    /\ \E s \in participants : delivered[s] = <<last_deliver[1].msg>>

\* C5: the replay ring holds at most one message, and the one it holds is the
\* argument of the last deliver call.
C5_RingHoldsLast ==
    /\ Len(recent_msgs) <= 1
    /\ n_delivered = 0 => recent_msgs = <<>>
    /\ n_delivered > 0 => recent_msgs = <<last_deliver[1].msg>>

\* C5 witness: after a second deliver the ring holds the second message.
C5_Witness ==
    /\ n_delivered >= 2
    /\ recent_msgs = <<last_deliver[1].msg>>

\* C9 as claimed: a session removed from the room by an I/O error never again
\* delivers a message to the room and never starts another read or write.
C9_ClosedIsTerminal ==
    [][\A s \in closed :
          /\ ~(RoomDeliverStep /\ last_deliver'[1].from = s)
          /\ ~(rd'[s] # "none" /\ rd'[s] # rd[s])
          /\ ~(sock_out'[s] # sock_out[s] /\ wr'[s] >= 1)]_vars

\* C10: an I/O error on a session removes that session only: the other
\* members, every other session's reads, writes and queue, the replay ring and
\* the acceptor stay as they are, and once a session has been closed a deliver
\* still reaches every member.
C10_ErrorClosesOneSession ==
    [][/\ \A s \in Sessions :
            ErrorStep(s) =>
               /\ participants' = participants \ {s}
               /\ \A u \in Sessions \ {s} :
                     /\ write_msgs'[u] = write_msgs[u]
                     /\ wr'[u] = wr[u]
                     /\ rd'[u] = rd[u]
               /\ recent_msgs' = recent_msgs
               /\ UNCHANGED serverVars
       /\ (RoomDeliverStep /\ closed # {}) =>
               \A u \in participants :
                  write_msgs'[u] = Append(write_msgs[u], last_deliver'[1].msg)]_vars

\* C10 witness: one session was closed by an error, and a later deliver
\* reached a session that is still a member.
C10_Witness ==
    /\ last_deliver # <<>>
    /\ \E s \in closed, u \in participants :
          /\ s < u
          /\ s \notin last_deliver[1].members
          /\ u \in last_deliver[1].members
          /\ Last(delivered[u]) = last_deliver[1].msg

-----------------------------------------------------------------------------
(* Properties of the envelope header, checked under SpecMsg *)

\* the header starts with "GS"
HasPrefixGS == msg_data[1] = "G" /\ msg_data[2] = "S"

\* the 4-character length field holds decimal digits only
FieldIsNumeric == \A i \in 3..header_length : IsDigit(msg_data[i])

\* the number written in the length field, a character that is no digit
\* counting as 0
FieldValue ==
    LET v(i) == IF IsDigit(msg_data[i]) THEN DigitVal(msg_data[i]) ELSE 0
    IN  1000 * v(3) + 100 * v(4) + 10 * v(5) + v(6)

\* the length field is the decimal representation of n, right-adjusted and
\* padded on the left with the character pad
FieldIsPadded(n, pad) ==
    \E k \in 0..3 :
       /\ \A i \in 3..(2 + k) : msg_data[i] = pad
       /\ \A i \in (3 + k)..header_length : IsDigit(msg_data[i])
       /\ k < 3 => (pad = "0" \/ msg_data[3 + k] # "0")
       /\ FieldValue = n

\* C6 as claimed: decode_header returns false when the header does not start
\* with "GS", when its length field holds a character that is no decimal
\* digit, or when the length is greater than 1029.
C6_RejectsMalformed ==
    (/\ msg_pc = "decoded"
     /\ \/ ~HasPrefixGS
        \/ ~FieldIsNumeric
        \/ FieldValue > max_body_length)
      => msg_ret = FALSE

\* C7 as claimed: "GS" followed by the zero-padded 4-digit n is accepted with
\* body_length n for every n in 0 .. 1029.
C7_AcceptsFrom0 ==
    (/\ msg_pc = "decoded"
     /\ HasPrefixGS
     /\ FieldIsNumeric
     /\ FieldValue \in 0..max_body_length)
      => msg_ret = TRUE /\ msg_body_length = FieldValue

\* C7 amended: "GS" followed by the zero-padded 4-digit n is accepted with
\* body_length n for every n in 1 .. 1029.
C7_AcceptsFrom1 ==
    (/\ msg_pc = "decoded"
     /\ HasPrefixGS
     /\ FieldIsNumeric
     /\ FieldValue \in 1..max_body_length)
      => msg_ret = TRUE /\ msg_body_length = FieldValue

\* C7 witness: "GS0042" is accepted with body_length 42.
C7_Witness ==
    /\ msg_pc = "decoded"
    /\ msg_data = <<"G", "S", "0", "0", "4", "2">>
    /\ msg_ret = TRUE
    /\ msg_body_length = 42

-----------------------------------------------------------------------------
(* Fan-out and slow consumers, checked under Spec *)

\* C11: a call of Rtcm_Listener_Room::deliver is one handler step that waits
\* for no socket write: it completes no write of any session, and in that same
\* step the write of the message starts on every member whose queue was
\* empty, whatever writes are still in flight on the other sessions.
C11_FanOutDoesNotBlock ==
    [][RoomDeliverStep =>
          \A s \in Sessions :
             /\ sock_out'[s] = sock_out[s]
             /\ wr'[s] >= wr[s]
             /\ (s \in participants /\ write_msgs[s] = <<>>) =>
                    wr'[s] = wr[s] + 1]_vars

\* C11 witness: one session's first write never completed and two messages
\* wait in its queue, while another session has already sent both of them.
C11_Witness ==
    \E a, b \in Sessions :
        /\ a # b
        /\ wr[a] = 1 /\ sock_out[a] = <<>> /\ Len(write_msgs[a]) = 2
        /\ Len(sock_out[b]) = 2
        /\ sock_out[b] = BodiesOf(write_msgs[a])

-----------------------------------------------------------------------------
(* Properties of the bridge, checked under SpecBridge and SpecBridgeFair *)

\* the strings pushed before the first sentinel
RECURSIVE BeforeGoodbye(_)
BeforeGoodbye(seq) ==
    IF seq = <<>> \/ Head(seq) = Goodbye THEN <<>>
    ELSE <<Head(seq)>> \o BeforeGoodbye(Tail(seq))

SentinelPushed == \E i \in 1..Len(pushed) : pushed[i] = Goodbye

\* w is the envelope of the string m: "GS", a 4-character field whose number
\* is the length of m, then the bytes of m
IsEnvelopeOf(w, m) ==
    /\ Len(w) = header_length + Len(m)
    /\ w[1] = "G" /\ w[2] = "S"
    /\ LET r == stoi(SubSeq(w, 3, header_length))
       IN  r.ok /\ r.val = Len(m)
    /\ SubSeq(w, header_length + 1, Len(w)) = m

\* C12: under every interleaving of the drain thread and the reactor, the
\* message that the k-th posted handler of Tcp_Internal_Client::write appends
\* to write_msgs_ has the header and the body that the drain thread passed to
\* the k-th call of write().
C12_PostedWriteKeepsMessage ==
    \A k \in 1..Len(appended) : appended[k] = handed[k]

\* C13: the byte strings written to the upstream connection are, in queue
\* order and one for one, the envelopes of the messages pushed to the queue.
C13_OneEnvelopePerMessage ==
    /\ Len(upstream_out) <= Len(BeforeGoodbye(pushed))
    /\ \A i \in 1..Len(upstream_out) :
          IsEnvelopeOf(upstream_out[i], BeforeGoodbye(pushed)[i])

\* C14: once "Goodbye" has been pushed the loop of do_read_queue ends, as
\* long as the drain thread keeps running; write() is called, in order, for
\* the strings pushed before the sentinel and for no other string, and when the
\* loop has ended it has been called for every one of them.
C14_GoodbyeEndsTheLoop ==
    /\ [](/\ Len(handed) <= Len(BeforeGoodbye(pushed))
          /\ \A i \in 1..Len(handed) :
                /\ handed[i].body = BeforeGoodbye(pushed)[i]
                /\ handed[i].body_length = Len(handed[i].body)
          /\ qr_pc = "done" => Len(handed) = Len(BeforeGoodbye(pushed)))
    /\ (SentinelPushed ~> qr_pc = "done")

\* C14 witness: the loop has ended after handing a message over, and a string
\* pushed after the sentinel is left in the queue.
C14_Witness ==
    /\ qr_pc = "done"
    /\ Len(handed) >= 1
    /\ queue # <<>>
    /\ Len(pushed) > Len(handed) + 1

-----------------------------------------------------------------------------
(* Shutdown of the server, checked under SpecStop *)

\* C15: once the server has been stopped, the socket of every session that is
\* still a member of the room has been closed (so that its pending reads and
\* writes fail and the session leaves the room), and no session is accepted
\* any more.
C15_StopClosesSessions ==
    ~acceptor_open =>
        /\ \A s \in participants : ~session_open[s]
        /\ ~ENABLED (\E ec2 \in BOOLEAN : AcceptOk(ec2))

-----------------------------------------------------------------------------
(* Properties of the codec, checked under SpecCodec *)

\* a message as it left build_message
Intact == cd_pc # "idle" /\ cd_flipped = 0

\* the number of body bytes of the message that was built, from its input
BodyBytes ==
    IF cd_in.type = 0 THEN (Len(cd_in.data) + 7) \div 8
    ELSE IF cd_in.type = 1005 THEN 19
    ELSE (DF002Bits + Len(cd_in.fields) + 7) \div 8

\* the number a bit string writes, for strings of at most 30 bits
RECURSIVE ValueOf(_, _)
ValueOf(bits, acc) ==
    IF bits = <<>> THEN acc ELSE ValueOf(Tail(bits), 2 * acc + Head(bits))

\* C16 as stated: a body of L bytes gives a framed message of 6 + L + 3 bytes
\* whose length field reads L.
C16_FrameIs9PlusL ==
    Intact =>
        /\ Len(cd_frame) = 8 * (6 + BodyBytes + 3)
        /\ ValueOf(SubSeq(cd_frame, 15, 24), 0) = BodyBytes

\* C16 amended: a body of L bytes (0 <= L <= 1023) gives a framed message of
\* 3 + L + 3 bytes, and the 10 bits after preamble and reserved field read L.
C16_FrameIs6PlusL ==
    Intact =>
        /\ BodyBytes <= 1023
        /\ Len(cd_frame) = 8 * (3 + BodyBytes + 3)
        /\ ValueOf(SubSeq(cd_frame, 15, 24), 0) = BodyBytes

\* C16 witness: a framed body of 1023 bytes, and one of 256 bytes.
C16_Witness ==
    /\ Intact
    /\ cd_in.type = 0
    /\ BodyBytes \in {256, 1023}

\* the CRC-24Q generator x^24 + x^23 + x^18 + x^17 + x^14 + x^11 + x^10 + x^7
\* + x^6 + x^5 + x^4 + x^3 + x + 1, as its 25 coefficients
PolyBits ==
    <<1, 1, 0, 0, 0, 0, 1, 1, 0, 0, 1, 0, 0, 1, 1, 0, 0, 1, 1, 1, 1, 1, 0, 1, 1>>

\* one step of the schoolbook long division of a bit string, read as a
\* polynomial over GF(2), by the generator: the leading coefficient is
\* cancelled and dropped
DivideStep(bits) ==
    Tail([i \in 1..Len(bits) |->
             IF i <= 25 /\ Head(bits) = 1 THEN (bits[i] + PolyBits[i]) % 2
             ELSE bits[i]])

\* n steps of the division
RECURSIVE Divide(_, _)
Divide(bits, n) ==
    IF Len(bits) < 25 \/ n <= 0 THEN bits
    ELSE IF n = 1 THEN DivideStep(bits)
    ELSE Divide(Divide(bits, n \div 2), n - (n \div 2))

\* the message m is a multiple of the generator: its last 24 bits are the
\* remainder of what precedes them (shifted by 24 places)
CrcFits(m) ==
    /\ Len(m) >= 24
    /\ Divide(m, Len(m) - 24) = [i \in 1..24 |-> 0]

C18_CrcDetectsOneFlip ==
    cd_pc = "framed" => (check_CRC(cd_frame) <=> cd_flipped = 0)

\* C18 witness: an MT1005 message with one bit of its CRC field inverted.
C18_Witness ==
    /\ cd_pc = "framed"
    /\ cd_flipped > Len(cd_frame) - 24
    /\ cd_in.type = 1005

\* C19: a reader called on a message that fails the CRC check, or whose first
\* 12 body bits are not the reader's message type, returns 1 and leaves its
\* output parameters as they were; a reader that returns 0 was given a message
\* whose CRC is right.
C19_ReaderRejects ==
    cd_pc = "read" =>
        LET type == ValueOf(SubSeq(cd_frame, 25, 36), 0)
        IN  /\ (cd_flipped # 0 \/ type # cd_expect) =>
                   (cd_out.ret = 1 /\ cd_out.val = PriorOut)
            /\ cd_out.ret = 0 => (cd_flipped = 0 /\ CrcFits(cd_frame))
            /\ cd_out.ret \in {0, 1}

\* C19 witness: the reader of the right type has refused a damaged message
\* whose type bits are intact.
C19_Witness ==
    /\ cd_pc = "read"
    /\ cd_in.type = cd_expect
    /\ cd_flipped > 36
    /\ cd_out.ret = 1

\* C20: read_MT1005 on the output of print_MT1005 returns 0 and gives back
\* the station ID, the three coordinates and the three indicators.
C20_MT1005RoundTrip ==
    (cd_pc = "read" /\ cd_in.type = 1005 /\ cd_expect = 1005 /\ cd_flipped = 0) =>
        /\ cd_out.ret = 0
        /\ cd_out.val.ref_id = cd_in.args.ref_id
        /\ cd_out.val.ecef_x = cd_in.args.ecef_x
        /\ cd_out.val.ecef_y = cd_in.args.ecef_y
        /\ cd_out.val.ecef_z = cd_in.args.ecef_z
        /\ cd_out.val.gps = cd_in.args.gps
        /\ cd_out.val.glonass = cd_in.args.glonass
        /\ cd_out.val.galileo = cd_in.args.galileo

\* C20 witness: the case ref_id = 4, x = 4075580.0, y = 931853.0,
\* z = 4801568.0, gps only, has been read back.
C20_Witness ==
    /\ cd_pc = "read"
    /\ cd_expect = 1005
    /\ cd_flipped = 0
    /\ cd_in = [type |-> 1005,
                args |-> MT1005Arg(4, SpecX, SpecY, SpecZ, TRUE, FALSE, FALSE)]
    /\ cd_out.ret = 0

-----------------------------------------------------------------------------
(* Properties of the Lock-Time Table, checked under SpecLock *)

\* two calls in a row for the same signal, satellite and observation time
SameCallTwice(k) ==
    /\ lt_calls[k].table = lt_calls[k - 1].table
    /\ lt_calls[k].sat = lt_calls[k - 1].sat
    /\ lt_calls[k].obs_time = lt_calls[k - 1].obs_time

CallsFor(tb, i) ==
    {k \in 1..Len(lt_calls) : lt_calls[k].table = tb /\ lt_calls[k].sat = i}

-----------------------------------------------------------------------------
(* Properties of the field encoders, checked under SpecEnc *)

IsLargestIntervalBelow(code, v) ==
    /\ code + 1 \in 1..Len(SsrIntervals)
    /\ SsrIntervals[code + 1] <= v
    /\ \A d \in (code + 2)..Len(SsrIntervals) : SsrIntervals[d] > v

\* the result does not decrease from the value just below, and fits 4 bits
MonotoneAndFits ==
    /\ Len(fe_out) = 4
    /\ bin_to_uint(fe_out) = ssr_update_interval(fe_in.value)
    /\ fe_in.value > 0 => ssr_update_interval(fe_in.value - 1) <= bin_to_uint(fe_out)

-----------------------------------------------------------------------------
(* The accept loop after a failed remote_endpoint, checked under Spec *)

\* a connection arrives whose remote endpoint can be read, it is accepted, and
\* a session is started for it that joins the room
AcceptStartsSession ==
    /\ AcceptOk(FALSE)
    /\ n_sessions' = n_sessions + 1
    /\ (n_sessions + 1) \in participants'

\* C27: the accept loop goes on after every completion, and a connection whose
\* remote endpoint could not be read costs that connection's session only:
\* whatever happened before, the next connection can be accepted and starts
\* a session that joins the room.
C27_NextAcceptStartsSession ==
    n_sessions < MaxSessions => ENABLED AcceptStartsSession

-----------------------------------------------------------------------------
(* Properties of the acquisition block, checked under SpecAcq and SpecAcqFair *)

\* a step that publishes a message on the "events" port
Publishes == Len(events') = Len(events) + 1

\* a step in which a worker thread ends
WorkerEnds == Len(workers') < Len(workers)

\* a step in which set_state(state) assigns, and one in which it returns
SetStateEnters(state) == ss_state = NoCall /\ ss_state' = state

SetStateReturns(state) == ss_state = state /\ ss_state' = NoCall

\* C23: every acquisition run started (state 1) ends with exactly one message
\* on the "events" port, 1 after positive acquisition (state 2) and 2 after
\* negative acquisition (state 3); nothing else is published, and right after
\* the publication d_active is false and d_state is 0.
C23_RunEndsWithOneMessage ==
    /\ [][Publishes =>
            /\ d_state \in {2, 3}
            /\ events' = Append(events, IF d_state = 2 THEN 1 ELSE 2)
            /\ d_active' = FALSE
            /\ d_state' = 0]_vars
    /\ [](Len(events) <= n_runs)
    /\ \A n \in 0..MaxAcqCalls :
          (d_state = 1 /\ Len(events) = n) ~> (Len(events) > n)

\* C24: set_state(s) with s outside {0, 1} leaves d_state as it was and is
\* reported as an error.
C24_InvalidStateRejected ==
    [][\A s \in StateArgs \ {0, 1} :
          /\ SetStateEnters(s) => d_state' = d_state
          /\ SetStateReturns(s) => n_errors' = n_errors + 1]_vars

\* C28: at most one acquisition_core thread is alive at any time, and
\* general_work starts one only when d_well_count < d_in_dwell_count, no
\* worker is working and d_state is 1, hence never in state 2 or 3.
C28_OneWorkerAtATime ==
    /\ [](Len(workers) <= 1)
    /\ [][Len(workers') > Len(workers) =>
            /\ d_well_count < d_in_dwell_count
            /\ ~d_core_working
            /\ d_state = 1
            /\ workers = <<>>]_vars

\* C28 witness: a worker is running while a second block waits in
\* d_in_buffer and general_work, in state 1, is about to test whether to
\* start a worker.
C28_Witness ==
    /\ Len(workers) = 1
    /\ d_core_working
    /\ d_state = 1
    /\ d_well_count < d_in_dwell_count
    /\ gw_pc = "start"

\* C29: state 3 arises only from a worker that ends with d_well_count equal
\* to d_max_dwells and the test statistic not above the threshold; without
\* bit_transition_flag a worker that ends with the test statistic above the
\* threshold declares state 2, whatever the dwell; with bit_transition_flag
\* no verdict, 2 or 3, arises before d_well_count equals d_max_dwells.
C29_VerdictConditions ==
    [][/\ (d_state' = 3 /\ d_state # 3) =>
              /\ WorkerEnds
              /\ d_well_count = d_max_dwells
              /\ ~(d_test_statistics > d_threshold)
       /\ (WorkerEnds /\ ~d_bit_transition_flag /\ d_test_statistics > d_threshold) =>
              d_state' = 2
       /\ (d_bit_transition_flag /\ d_state' \in {2, 3} /\ d_state' # d_state) =>
              d_well_count = d_max_dwells]_vars

\* what a restart leaves
Restarted ==
    /\ d_state' = 1
    /\ d_well_count' = 0
    /\ d_in_dwell_count' = 0
    /\ d_test_statistics' = 0
    /\ d_mag' = 0
    /\ d_input_power' = 0
    /\ d_sample_counter_buffer' = 0
    /\ d_gnss_synchro' = "zeroed"

\* the members other than d_state
NotState ==
    <<d_max_dwells, d_bit_transition_flag, d_active, d_core_working,
      d_well_count, d_in_dwell_count, d_test_statistics, d_mag, d_input_power,
      d_sample_counter_buffer, d_gnss_synchro>>

\* C30: when set_state(1) returns, and when general_work has run in state 0
\* with d_active true, d_state is 1, d_well_count and d_in_dwell_count are 0,
\* d_test_statistics, d_mag and d_input_power are 0, the sample-stamp buffer
\* is empty and the acquisition results are zeroed; set_state(0) changes
\* nothing but d_state.
C30_StartRestarts ==
    [][/\ SetStateReturns(1) => Restarted
       /\ (d_state = 0 /\ d_state' = 1 /\ ss_state' = ss_state) => Restarted
       /\ (SetStateEnters(0) \/ SetStateReturns(0)) => UNCHANGED NotState]_vars

\* a step of the header handler of session s on header bytes h that
\* decode_header rejects
RejectedHeader(s, h) ==
    /\ HeaderReadOk(s, h)
    /\ ~decode_header(h, read_msg[s].body_length).ret

\* C31: a header read without error that fails decode_header leaves the
\* session as it was: the room keeps its members, no session is closed,
\* nothing is delivered or queued for writing, no body read is started and the
\* session waits for the next header.
C31_BadHeaderKeepsSession ==
    [][\A s \in Sessions, h \in NoisyHeaders :
          RejectedHeader(s, h) =>
              /\ participants' = participants
              /\ closed' = closed
              /\ session_open' = session_open
              /\ recent_msgs' = recent_msgs
              /\ write_msgs' = write_msgs
              /\ delivered' = delivered
              /\ n_delivered' = n_delivered
              /\ rd'[s] = "header"]_vars

\* C31 witness: a session that relayed a message has since had a header
\* rejected (its body_length_ is back to 0) and is a member of the room,
\* waiting for a header.
C31_Witness ==
    \E s \in participants :
        /\ rd[s] = "header"
        /\ read_msg[s].body_length = 0
        /\ last_deliver # <<>>
        /\ last_deliver[1].from = s

\* C32: what a session writes to its client for a message is the body of that
\* message, body_length bytes long, with no "GS" header before it, and a
\* message read completely goes to every member of the room; what the internal
\* client writes upstream for a message of its queue is the 6 header bytes
\* followed by the body_length body bytes.
C32_BodyDownstreamEnvelopeUpstream ==
    /\ \A s \in Sessions :
          /\ Len(sock_out[s]) <= Len(delivered[s])
          /\ \A i \in 1..Len(sock_out[s]) :
                LET m == delivered[s][i]
                IN  /\ Len(sock_out[s][i]) = m.body_length
                    /\ sock_out[s][i] = SubSeq(m.body, 1, m.body_length)
    /\ last_deliver # <<>> =>
          \A t \in last_deliver[1].members :
              /\ delivered[t] # <<>>
              /\ Last(delivered[t]) = last_deliver[1].msg
    /\ Len(upstream_out) <= Len(appended)
    /\ \A i \in 1..Len(upstream_out) :
          LET m == appended[i]
          IN  /\ Len(upstream_out[i]) = header_length + m.body_length
              /\ SubSeq(upstream_out[i], 1, header_length) = m.data
              /\ SubSeq(upstream_out[i], header_length + 1, Len(upstream_out[i]))
                    = SubSeq(m.body, 1, m.body_length)

\* C32 witness: the internal client has written an envelope upstream, and two
\* members of the room have each written the body of a relayed message to
\* their clients.
C32_Witness ==
    /\ upstream_out # <<>>
    /\ SubSeq(upstream_out[1], 1, 2) = <<"G", "S">>
    /\ \E s, t \in participants :
          /\ s # t
          /\ sock_out[s] # <<>>
          /\ sock_out[t] # <<>>

\* C33: for a body length n in 1 .. 1029, decode_header on the 6 bytes that
\* encode_header wrote for a message of body length n returns true and leaves
\* body_length equal to n.
C33_EnvelopeRoundTrip ==
    (msg_pc = "returned" /\ msg_arg \in 1..max_body_length)
      => /\ msg_ret = TRUE
         /\ msg_body_length = msg_arg

\* C33 witness: the header written for a one-digit length, "GS" and three
\* blanks before the digit, has been decoded to that length.
C33_Witness ==
    /\ msg_pc = "returned"
    /\ msg_arg = 7
    /\ msg_data = <<"G", "S", " ", " ", " ", "7">>
    /\ msg_ret = TRUE
    /\ msg_body_length = 7

\* the sizes of an Rtcm_Message m stay inside data_
FitsBuffer(m) ==
    /\ m.body_length <= max_body_length
    /\ header_length + m.body_length <= header_length + max_body_length

\* C34: body_length() is at most 1029 and length() at most 1035 for every
\* Rtcm_Message, the one under test and those the bridge builds, queues and
\* writes, so no string written is longer than the buffer; and for a string of
\* the queue longer than 1029 bytes the bridge forwards the header "GS1029"
\* followed by the first 1029 bytes of the string.
C34_LengthsWithinBuffer ==
    /\ msg_body_length <= max_body_length
    /\ qr_msg # Dead => FitsBuffer(qr_msg)
    /\ \A i \in 1..Len(handed) : FitsBuffer(handed[i])
    /\ \A i \in 1..Len(c_write_msgs) : FitsBuffer(c_write_msgs[i])
    /\ \A i \in 1..Len(upstream_out) :
          /\ Len(upstream_out[i]) <= header_length + max_body_length
          /\ LET p == BeforeGoodbye(pushed)[i]
             IN  Len(p) > max_body_length =>
                    upstream_out[i] = <<"G", "S", "1", "0", "2", "9">>
                                        \o SubSeq(p, 1, max_body_length)

\* the d_in_buffer indices the core run in progress has used so far
CoreIndices == {core_run.corr, core_run.power} \ {NoIndex}

\* C35: d_in_dwell_count never exceeds d_max_dwells, so that general_work fills
\* only the elements 0 .. d_max_dwells - 1 of d_in_buffer, and every index at
\* which a core run reads d_in_buffer is in 0 .. d_max_dwells - 1.
C35_DwellIndexInBuffer ==
    /\ d_in_dwell_count <= d_max_dwells
    /\ \A i \in CoreIndices : 0 <= i /\ i < d_max_dwells

\* C36: the sample stamp a core run reports, the dwell whose input power it
\* estimates and the dwell it correlates have the same index, and the core run
\* that takes the first dwell of an acquisition works on dwell 0.
C36_OneDwellPerCoreRun ==
    core_run.power # NoIndex =>
        /\ core_run.stamp = core_run.corr
        /\ core_run.corr = core_run.power
        /\ d_well_count = 1 => core_run.corr = 0

\* a worker thread ends and declares a verdict
WorkerDeclares ==
    /\ \E k \in 1..Len(workers) : WorkerVerdict(k)
    /\ d_state' \in {2, 3}
    /\ d_state' # d_state

\* a worker thread writes acquisition results
WorkerReports ==
    /\ \E k \in 1..Len(workers), magt \in Ratios : WorkerSearch(k, magt)
    /\ <<d_gnss_synchro, d_test_statistics>>' # <<d_gnss_synchro, d_test_statistics>>

\* C39: a worker that declares a verdict or writes acquisition results while
\* no set_state call is in progress was started in the acquisition run that is
\* current when it does so: no worker of the run before a restart ends or
\* alters the restarted run.
C39_OnlyCurrentRunWorker ==
    [][((WorkerDeclares \/ WorkerReports) /\ ss_state = NoCall)
          => worker_run = n_runs]_vars

\* C38: with no set_state call, general_work called again and again and the
\* workers scheduled, an acquisition in state 1 reaches state 2 or state 3,
\* having started at most d_max_dwells core runs, and an acquisition in state 2
\* or 3 is put back to state 0.
C38_AcquisitionEnds ==
    /\ (d_state = 1) ~> (d_state \in {2, 3})
    /\ (d_state \in {2, 3}) ~> (d_state = 0)
    /\ [](d_well_count <= d_max_dwells)

=============================================================================
